---- MODULE Spec2Model ----
(***************************************************************************)
(* displayz: the display-topology model (DisplaySet / Display /            *)
(* DisplayProperties), the primary-reassignment algorithm and the          *)
(* stage / apply / refresh pipeline, for the two backends of the           *)
(* repository:                                                             *)
(*   "legacy" - src/src/platforms/windows/display.rs + src/src/properties.rs*)
(*              (per-device EnumDisplayDevices / ChangeDisplaySettingsEx)  *)
(*   "graph"  - src/src/display.rs (QueryDisplayConfig / SetDisplayConfig) *)
(* Indices are 0-based as in the Rust code; display i is displays[i + 1].  *)
(***************************************************************************)
EXTENDS Integers, Sequences, FiniteSets, TLC

VARIABLES
    backend,          \* which DisplaySet implementation is compiled in
    overflow_checks,  \* build profile: TRUE = debug (overflow panics), FALSE = release (wraps)
    os_devices,       \* platform: the active (visible) configuration, one record per device
    os_registry,      \* platform: the stored configuration that the next reset activates
    has_set,          \* a DisplaySet returned by query_displays exists
    displays,         \* DisplaySet.displays : Vec<DisplayProperties>
    primary_display,  \* DisplaySet.primary_display : Cell<usize>
    paths,            \* DisplaySet.paths (graph backend)
    modes,            \* DisplaySet.modes (graph backend)
    calls,            \* platform commit/reset calls issued by the last operation
                      \* (after a query: the platform call that failed, if one did)
    last,             \* the last operation: [op, index, result, code]
    flow,             \* how far the run has followed query, set_primary, apply, refresh
    text,             \* a value on its way through to_string() and from_str()
    queried,          \* the sets as returned by the last (up to 2) successful queries
    trail,            \* the last (up to TrailLen) consecutive set_primary calls with their pre-states
    budget            \* remaining operations of each kind (bounds the exploration)

vars == <<backend, overflow_checks, os_devices, os_registry, has_set, displays,
          primary_display, paths, modes, calls, last, flow, text, queried, trail, budget>>

----------------------------------------------------------------------------
(* Bounds of the exploration *)

MaxDisplays == 2
MaxQueries == 1
MaxSetPrimary == 3
MaxSetters == 1
MaxApplies == 1
MaxRefreshes == 1
ContractDisplays == 3
StagingDisplays == 3
SettersBeforeApply == 2

(* Program constants *)

I32Max == 2147483647
I32Min == -I32Max - 1
TrailLen == 3
DefaultFrequency == 60

\* Option<T>: None is the empty sequence, Some(v) the one-element sequence
None == <<>>
Some(v) == <<v>>

----------------------------------------------------------------------------
(* i32 arithmetic of Position (types.rs / properties.rs): every operation  *)
(* yields the wrapped two's-complement value and whether it overflowed.    *)
(* Intermediate values never leave the i32 range.                          *)

NegI32(a) ==
    IF a = I32Min THEN [value |-> I32Min, overflow |-> TRUE]
    ELSE [value |-> -a, overflow |-> FALSE]

AddI32(a, b) ==
    IF b > 0 /\ a > I32Max - b
    THEN [value |-> (a + I32Min) + (b + I32Min), overflow |-> TRUE]
    ELSE IF b < 0 /\ a < I32Min - b
    THEN [value |-> (a - I32Min) + (b - I32Min), overflow |-> TRUE]
    ELSE [value |-> a + b, overflow |-> FALSE]

SubI32(a, b) ==
    IF b < 0 /\ a > I32Max + b
    THEN [value |-> (a + I32Min) - (b - I32Min), overflow |-> TRUE]
    ELSE IF b > 0 /\ a < I32Min + b
    THEN [value |-> (a - I32Min) - (b + I32Min), overflow |-> TRUE]
    ELSE [value |-> a - b, overflow |-> FALSE]

Position_new(x, y) == <<x, y>>

Position_neg(p) ==
    [value |-> Position_new(NegI32(p[1]).value, NegI32(p[2]).value),
     overflow |-> NegI32(p[1]).overflow \/ NegI32(p[2]).overflow]

Position_add(p, q) ==
    [value |-> Position_new(AddI32(p[1], q[1]).value, AddI32(p[2], q[2]).value),
     overflow |-> AddI32(p[1], q[1]).overflow \/ AddI32(p[2], q[2]).overflow]

Position_sub(p, q) ==
    [value |-> Position_new(SubI32(p[1], q[1]).value, SubI32(p[2], q[2]).value),
     overflow |-> SubI32(p[1], q[1]).overflow \/ SubI32(p[2], q[2]).overflow]

----------------------------------------------------------------------------
(* Value conversions at the platform boundary *)

Orientations == {"Landscape", "Portrait", "LandscapeFlipped", "PortraitFlipped"}

\* types.rs Orientation::to_rotation (enum discriminant, DISPLAYCONFIG_ROTATION)
to_rotation(o) ==
    CASE o = "Landscape" -> 1
      [] o = "Portrait" -> 2
      [] o = "LandscapeFlipped" -> 3
      [] o = "PortraitFlipped" -> 4

\* types.rs Orientation::from_rotation
from_rotation(r) ==
    CASE r = 1 -> "Landscape"
      [] r = 2 -> "Portrait"
      [] r = 3 -> "LandscapeFlipped"
      [] r = 4 -> "PortraitFlipped"
      [] OTHER -> "Landscape"

\* types.rs Scaling::to_value / Scaling::from_value
Scaling_to_value(s) ==
    CASE s = "Identity" -> 0
      [] s = "Centered" -> 1
      [] s = "Stretched" -> 2

Scaling_from_value(v) ==
    CASE v = 0 -> "Identity"
      [] v = 1 -> "Centered"
      [] v = 2 -> "Stretched"
      [] OTHER -> "Identity"

----------------------------------------------------------------------------
(* Text forms (Display / FromStr of types.rs and properties.rs).  A text   *)
(* is a sequence of characters.  u32 values are kept as two 16-bit halves  *)
(* so that the whole range 0 .. 2^32 - 1 is representable.                 *)

NoText == [stage |-> "none"]

Ok(v) == [ok |-> TRUE, value |-> v]
Err(kind) == [ok |-> FALSE, err |-> kind]

DigitChars == <<"0", "1", "2", "3", "4", "5", "6", "7", "8", "9">>
UpperChars == <<"A", "B", "C", "D", "E", "F", "G", "H", "I", "J", "K", "L", "M", "N", "O", "P", "Q", "R", "S", "T", "U", "V", "W", "X", "Y", "Z">>
LowerChars == <<"a", "b", "c", "d", "e", "f", "g", "h", "i", "j", "k", "l", "m", "n", "o", "p", "q", "r", "s", "t", "u", "v", "w", "x", "y", "z">>

is_digit(c) == \E d \in 1..10 : DigitChars[d] = c
to_digit(c) == (CHOOSE d \in 1..10 : DigitChars[d] = c) - 1
from_digit(d) == DigitChars[d + 1]

\* variant: the text is matched as written, without lowering its case
to_lowercase_identity(s) ==
    s

\* str::to_lowercase on the characters that occur
to_lowercase(s) ==
    [i \in 1..Len(s) |->
        IF \E k \in 1..26 : UpperChars[k] = s[i]
        THEN LowerChars[CHOOSE k \in 1..26 : UpperChars[k] = s[i]]
        ELSE s[i]]

\* str::split(sep): the parts between the separators, in order
RECURSIVE split(_, _)
split(s, sep) ==
    IF \A i \in 1..Len(s) : s[i] # sep THEN <<s>>
    ELSE LET i == CHOOSE j \in 1..Len(s) : s[j] = sep /\ \A k \in 1..(j - 1) : s[k] # sep
         IN <<SubSeq(s, 1, i - 1)>> \o split(SubSeq(s, i + 1, Len(s)), sep)

\* "{}" of an i32: the decimal digits of a value <= 0, without sign
RECURSIVE fmt_magnitude(_)
fmt_magnitude(v) ==
    IF v > -10 THEN <<from_digit(-v)>>
    ELSE LET d == (10 - (v % 10)) % 10
         IN fmt_magnitude((v + d) \div 10) \o <<from_digit(d)>>

\* "{}" of an i32
fmt_i32(v) ==
    IF v < 0 THEN <<"-">> \o fmt_magnitude(v) ELSE fmt_magnitude(-v)

\* str::parse::<i32>, the digits after the sign: checked_mul(10) then
\* checked_add / checked_sub of the digit
RECURSIVE i32_digits(_, _, _)
i32_digits(digits, acc, is_positive) ==
    IF digits = <<>> THEN Ok(acc)
    ELSE IF ~is_digit(Head(digits)) THEN Err("InvalidDigit")
    ELSE LET d == to_digit(Head(digits)) IN
         IF is_positive
         THEN IF acc > I32Max \div 10 THEN Err("PosOverflow")
              ELSE IF acc * 10 > I32Max - d THEN Err("PosOverflow")
              ELSE i32_digits(Tail(digits), acc * 10 + d, is_positive)
         ELSE IF acc < -(I32Max \div 10) THEN Err("NegOverflow")
              ELSE IF acc * 10 < I32Min + d THEN Err("NegOverflow")
              ELSE i32_digits(Tail(digits), acc * 10 - d, is_positive)

\* str::parse::<i32>
i32_from_str(src) ==
    IF src = <<>> THEN Err("Empty")
    ELSE IF Head(src) \in {"+", "-"} /\ Len(src) = 1 THEN Err("InvalidDigit")
    ELSE IF Head(src) = "+" THEN i32_digits(Tail(src), 0, TRUE)
    ELSE IF Head(src) = "-" THEN i32_digits(Tail(src), 0, FALSE)
    ELSE i32_digits(src, 0, TRUE)

Half == 65536
U32(hi, lo) == [hi |-> hi, lo |-> lo]

\* "{}" of a u32
RECURSIVE fmt_u32(_)
fmt_u32(v) ==
    IF v.hi = 0 /\ v.lo < 10 THEN <<from_digit(v.lo)>>
    ELSE LET t == ((v.hi % 10) * Half) + v.lo
         IN fmt_u32(U32(v.hi \div 10, t \div 10)) \o <<from_digit(t % 10)>>

\* str::parse::<u32>, the digits after the sign
RECURSIVE u32_digits(_, _)
u32_digits(digits, acc) ==
    IF digits = <<>> THEN Ok(acc)
    ELSE IF ~is_digit(Head(digits)) THEN Err("InvalidDigit")
    ELSE LET d == to_digit(Head(digits))
             mul_lo == acc.lo * 10
             mul_hi == (acc.hi * 10) + (mul_lo \div Half)
             add_lo == (mul_lo % Half) + d
             add_hi == mul_hi + (add_lo \div Half)
         IN IF mul_hi >= Half THEN Err("PosOverflow")
            ELSE IF add_hi >= Half THEN Err("PosOverflow")
            ELSE u32_digits(Tail(digits), U32(add_hi, add_lo % Half))

\* str::parse::<u32>
u32_from_str(src) ==
    IF src = <<>> THEN Err("Empty")
    ELSE IF Head(src) \in {"+", "-"} /\ Len(src) = 1 THEN Err("InvalidDigit")
    ELSE IF Head(src) = "+" THEN u32_digits(Tail(src), U32(0, 0))
    ELSE u32_digits(src, U32(0, 0))

\* impl fmt::Display for Position (the same text in types.rs and properties.rs)
Position_fmt(p) ==
    <<"(">> \o fmt_i32(p[1]) \o <<",", " ">> \o fmt_i32(p[2]) \o <<")">>

\* impl FromStr for Position (the same code in types.rs and properties.rs)
Position_from_str(s) ==
    LET parts == split(s, ",")
        x == i32_from_str(parts[1])
    IN IF ~x.ok THEN Err("IntError")
       ELSE IF Len(parts) < 2 THEN Err("SecondPart")
       ELSE LET y == i32_from_str(parts[2])
            IN IF ~y.ok THEN Err("IntError")
               ELSE Ok(Position_new(x.value, y.value))

Resolution_new(width, height) == [width |-> width, height |-> height]

\* impl fmt::Display for Resolution (the same text in both modules)
Resolution_fmt(r) ==
    fmt_u32(r.width) \o <<"x">> \o fmt_u32(r.height)

\* impl FromStr for Resolution (the same code in both modules)
Resolution_from_str(s) ==
    LET parts == split(s, "x")
        width == u32_from_str(parts[1])
    IN IF ~width.ok THEN Err("IntError")
       ELSE IF Len(parts) < 2 THEN Err("SecondPart")
       ELSE LET height == u32_from_str(parts[2])
            IN IF ~height.ok THEN Err("IntError")
               ELSE Ok(Resolution_new(width.value, height.value))

\* impl fmt::Display for Frequency (the same text in both modules)
Frequency_fmt(f) ==
    fmt_u32(f)

\* impl FromStr for Frequency (the same code in both modules)
Frequency_from_str(s) ==
    LET v == u32_from_str(s)
    IN IF ~v.ok THEN Err("IntError") ELSE Ok(v.value)

\* types.rs impl fmt::Display for Orientation
types_Orientation_fmt(o) ==
    CASE o = "Landscape" -> <<"l", "a", "n", "d", "s", "c", "a", "p", "e">>
      [] o = "Portrait" -> <<"p", "o", "r", "t", "r", "a", "i", "t">>
      [] o = "LandscapeFlipped" -> <<"l", "a", "n", "d", "s", "c", "a", "p", "e", "_", "f", "l", "i", "p", "p", "e", "d">>
      [] o = "PortraitFlipped" -> <<"p", "o", "r", "t", "r", "a", "i", "t", "_", "f", "l", "i", "p", "p", "e", "d">>

\* types.rs impl FromStr for Orientation
types_Orientation_from_str(s) ==
    LET l == to_lowercase(s) IN
    CASE l \in {<<"l", "a", "n", "d", "s", "c", "a", "p", "e">>, <<"0">>, <<"1">>} -> Ok("Landscape")
      [] l \in {<<"p", "o", "r", "t", "r", "a", "i", "t">>, <<"9", "0">>, <<"2">>} -> Ok("Portrait")
      [] l \in {<<"l", "a", "n", "d", "s", "c", "a", "p", "e", "_", "f", "l", "i", "p", "p", "e", "d">>, <<"1", "8", "0">>, <<"3">>} -> Ok("LandscapeFlipped")
      [] l \in {<<"p", "o", "r", "t", "r", "a", "i", "t", "_", "f", "l", "i", "p", "p", "e", "d">>, <<"2", "7", "0">>, <<"4">>} -> Ok("PortraitFlipped")
      [] OTHER -> Err("UnknownOrientation")

\* properties.rs impl fmt::Display for Orientation
properties_Orientation_fmt(o) ==
    CASE o = "Landscape" -> <<"D", "e", "f", "a", "u", "l", "t">>
      [] o = "LandscapeFlipped" -> <<"U", "p", "s", "i", "d", "e", "D", "o", "w", "n">>
      [] o = "Portrait" -> <<"R", "i", "g", "h", "t">>
      [] o = "PortraitFlipped" -> <<"L", "e", "f", "t">>

\* properties.rs impl FromStr for Orientation
properties_Orientation_from_str(s) ==
    LET l == to_lowercase(s) IN
    CASE l \in {<<"d", "e", "f", "a", "u", "l", "t">>, <<"l", "a", "n", "d", "s", "c", "a", "p", "e">>} -> Ok("Landscape")
      [] l \in {<<"u", "p", "s", "i", "d", "e", "d", "o", "w", "n">>, <<"l", "a", "n", "d", "s", "c", "a", "p", "e", "f", "l", "i", "p", "p", "e", "d">>} -> Ok("LandscapeFlipped")
      [] l \in {<<"r", "i", "g", "h", "t">>, <<"p", "o", "r", "t", "r", "a", "i", "t">>} -> Ok("Portrait")
      [] l \in {<<"l", "e", "f", "t">>, <<"p", "o", "r", "t", "r", "a", "i", "t", "f", "l", "i", "p", "p", "e", "d">>} -> Ok("PortraitFlipped")
      [] OTHER -> Err("InvalidOrientation")

TextModules == {"types", "properties"}

\* value.to_string()
format(module, kind, value) ==
    CASE kind = "Position" -> Position_fmt(value)
      [] kind = "Resolution" -> Resolution_fmt(value)
      [] kind = "Frequency" -> Frequency_fmt(value)
      [] kind = "Orientation" -> IF module = "types" THEN types_Orientation_fmt(value)
                                 ELSE properties_Orientation_fmt(value)

\* Kind::from_str(text)
parse(module, kind, s) ==
    CASE kind = "Position" -> Position_from_str(s)
      [] kind = "Resolution" -> Resolution_from_str(s)
      [] kind = "Frequency" -> Frequency_from_str(s)
      [] kind = "Orientation" -> IF module = "types" THEN types_Orientation_from_str(s)
                                 ELSE properties_Orientation_from_str(s)

----------------------------------------------------------------------------
(* The platform: one record per display device.  `primary` is the state    *)
(* bit DISPLAY_DEVICE_PRIMARY_DEVICE, `active` the bit                      *)
(* DISPLAY_DEVICE_ATTACHED_TO_DESKTOP; an attached device has current      *)
(* settings.                                                               *)

DeviceName(i) == "DISPLAY" \o ToString(i)

DefaultSettings ==
    [position |-> Position_new(0, 0), resolution |-> <<1920, 1080>>,
     orientation |-> "Landscape", frequency |-> DefaultFrequency, scaling |-> "Identity"]

\* n devices, those of `act` attached to the desktop in one row from left to
\* right, device `prim` at the origin.
DeviceRow(n, act, prim) ==
    [i \in 1..n |->
        [name |-> DeviceName(i),
         active |-> i \in act,
         primary |-> i = prim,
         settings |-> IF i \in act
                      THEN Some([DefaultSettings EXCEPT
                                    !.position = Position_new(1920 * (i - prim), 0)])
                      ELSE None]]

\* the platform configurations of up to `max` devices: no device attached, or
\* any non-empty set of attached devices one of which is the primary
PlatformConfigsUpTo(max) ==
    UNION {
        {DeviceRow(n, {}, 0)} \cup
        {DeviceRow(n, act, prim) : <<act, prim>> \in
            {ap \in (SUBSET (1..n)) \X (1..n) : ap[2] \in ap[1]}}
        : n \in 0..max}

PlatformConfigs == PlatformConfigsUpTo(MaxDisplays)

Backends == {"legacy", "graph"}

----------------------------------------------------------------------------
(* Enumeration Collector, legacy backend *)

\* properties.rs Orientation::from_windows / to_windows (DMDO_* constants)
Orientation_from_windows(dmdo) ==
    CASE dmdo = 0 -> "Landscape"
      [] dmdo = 1 -> "PortraitFlipped"
      [] dmdo = 2 -> "LandscapeFlipped"
      [] dmdo = 3 -> "Portrait"

Orientation_to_windows(o) ==
    CASE o = "Landscape" -> 0
      [] o = "PortraitFlipped" -> 1
      [] o = "LandscapeFlipped" -> 2
      [] o = "Portrait" -> 3

\* properties.rs FixedOutput::from_windows / to_windows (DMDFO_* constants)
FixedOutput_from_windows(dmdfo) ==
    CASE dmdfo = 0 -> "Default"
      [] dmdfo = 1 -> "Stretch"
      [] dmdfo = 2 -> "Center"

FixedOutput_to_windows(f) ==
    CASE f = "Default" -> 0
      [] f = "Stretch" -> 1
      [] f = "Center" -> 2

\* the platform's DEVMODE encoding of its own orientation and scaling values
DevmodeOrientation(o) ==
    CASE o = "Landscape" -> 0
      [] o = "PortraitFlipped" -> 1
      [] o = "LandscapeFlipped" -> 2
      [] o = "Portrait" -> 3

OrientationOfDevmode(dmdo) ==
    CASE dmdo = 0 -> "Landscape"
      [] dmdo = 1 -> "PortraitFlipped"
      [] dmdo = 2 -> "LandscapeFlipped"
      [] dmdo = 3 -> "Portrait"

DevmodeFixedOutput(sc) ==
    CASE sc = "Identity" -> 0
      [] sc = "Stretched" -> 1
      [] sc = "Centered" -> 2

ScalingOfDevmode(dmdfo) ==
    CASE dmdfo = 0 -> "Identity"
      [] dmdfo = 1 -> "Stretched"
      [] dmdfo = 2 -> "Centered"

\* EnumDisplaySettingsW(name, ENUM_CURRENT_SETTINGS): the device's DEVMODE
EnumDisplaySettings(device) ==
    [dmPosition |-> device.settings[1].position,
     dmPelsWidth |-> device.settings[1].resolution[1],
     dmPelsHeight |-> device.settings[1].resolution[2],
     dmDisplayOrientation |-> DevmodeOrientation(device.settings[1].orientation),
     dmDisplayFixedOutput |-> DevmodeFixedOutput(device.settings[1].scaling),
     dmDisplayFrequency |-> device.settings[1].frequency]

\* properties.rs DisplayProperties::fetch_settings
fetch_settings(devmode) ==
    [position |-> devmode.dmPosition,
     resolution |-> <<devmode.dmPelsWidth, devmode.dmPelsHeight>>,
     orientation |-> Orientation_from_windows(devmode.dmDisplayOrientation),
     frequency |-> devmode.dmDisplayFrequency,
     fixed_output |-> FixedOutput_from_windows(devmode.dmDisplayFixedOutput)]

\* variant: settings are attached whether or not the device is attached to the
\* desktop
from_windows_unconditional(device) ==
    [name |-> device.name,
     active |-> device.active,
     primary |-> device.primary,
     settings |-> Some(fetch_settings(EnumDisplaySettings(
                           IF device.active THEN device
                           ELSE [device EXCEPT !.settings = Some(DefaultSettings)])))]

\* properties.rs DisplayProperties::from_windows: settings are fetched for an
\* attached device only; the primary flag is the device's state bit.
from_windows(device) ==
    [name |-> device.name,
     active |-> device.active,
     primary |-> device.primary,
     settings |-> IF device.active
                  THEN Some(fetch_settings(EnumDisplaySettings(device)))
                  ELSE None]

\* error codes the platform's enumerate call can fail with: the designated
\* invalid-handle code and another one
ERROR_INVALID_HANDLE == 6
ERROR_ACCESS_DENIED == 5
EnumErrors == {ERROR_INVALID_HANDLE, ERROR_ACCESS_DENIED}

\* a platform call of a query that fails: which call, at which device or path
\* index, with which code
NoFault == [stage |-> "none", at |-> 0, code |-> 0]

Fault(stage, at, code) == [stage |-> stage, at |-> at, code |-> code]

\* EnumDisplayDevices(None, dev_num, ..) as the code sees it: Err(code) when the
\* platform call fails, Ok(false) past the last device, Ok(true) with the record
EnumDisplayDevices(devs, dev_num, fault) ==
    IF fault.stage = "EnumDisplayDevices" /\ fault.at = dev_num
    THEN [err |-> Some(fault.code), is_good |-> FALSE]
    ELSE [err |-> None, is_good |-> dev_num < Len(devs)]

\* platforms/windows/display.rs:189-207, the enumeration loop: `?` returns any
\* Err of the enumerate call or of the conversion, `!is_good` ends the list
RECURSIVE legacy_enumerate(_, _, _, _)
legacy_enumerate(devs, dev_num, result, fault) ==
    LET r == EnumDisplayDevices(devs, dev_num, fault) IN
    IF r.err # None
    THEN [result |-> "WinAPI", code |-> r.err[1], index |-> dev_num, displays |-> result]
    ELSE IF ~r.is_good
    THEN [result |-> "Ok", code |-> 0, index |-> dev_num, displays |-> result]
    ELSE IF fault.stage = "from_winsafe" /\ fault.at = dev_num
    THEN [result |-> "Properties", code |-> 0, index |-> dev_num, displays |-> result]
    ELSE legacy_enumerate(devs, dev_num + 1,
                          Append(result, from_windows(devs[dev_num + 1])), fault)

\* platforms/windows/display.rs query_displays: one record per enumerated
\* device; the primary pointer is always constructed as 0; an error returns no
\* set.
legacy_query_displays_with(devs, fault) ==
    LET l == legacy_enumerate(devs, 0, <<>>, fault) IN
    [result |-> l.result, code |-> l.code,
     index |-> IF l.result = "Ok" THEN 0 ELSE l.index,
     set |-> IF l.result = "Ok"
             THEN Some([displays |-> l.displays, primary_display |-> 0,
                        paths |-> <<>>, modes |-> <<>>])
             ELSE None]

legacy_query_displays(devs) == legacy_query_displays_with(devs, NoFault).set[1]

\* the calls of a legacy query that can fail: the enumerate call at any index
\* (the one past the last device included), the settings query of an
\* attached device
legacy_faults(devs) ==
    {Fault("EnumDisplayDevices", k, c) : k \in 0..Len(devs), c \in EnumErrors}
    \cup {Fault("from_winsafe", k - 1, 0) : k \in {j \in 1..Len(devs) : devs[j].active}}

----------------------------------------------------------------------------
(* Enumeration Collector, topology-graph backend *)

AttachedDevices(devs) == SelectSeq(devs, LAMBDA d : d.active)

\* QueryDisplayConfig(QDC_ONLY_ACTIVE_PATHS): one path per attached device,
\* each with a source mode and a target mode entry (0-based mode indices).
QueryDisplayConfig(devs) ==
    LET act == AttachedDevices(devs) IN
    [paths |-> [k \in 1..Len(act) |->
                   [flags |-> 1,
                    sourceName |-> act[k].name,
                    sourceModeIdx |-> 2 * (k - 1),
                    targetModeIdx |-> 2 * (k - 1) + 1,
                    rotation |-> to_rotation(act[k].settings[1].orientation),
                    scaling |-> Scaling_to_value(act[k].settings[1].scaling)]],
     modes |-> [m \in 1..(2 * Len(act)) |->
                   LET d == act[(m + 1) \div 2] IN
                   IF m % 2 = 1
                   THEN [infoType |-> "source",
                         position |-> d.settings[1].position,
                         width |-> d.settings[1].resolution[1],
                         height |-> d.settings[1].resolution[2]]
                   ELSE [infoType |-> "target",
                         vSyncNumerator |-> d.settings[1].frequency,
                         vSyncDenominator |-> 1]]]

\* DISPLAYCONFIG_PATH_MODE_IDX_INVALID (0xffffffff): beyond every mode array
PATH_MODE_IDX_INVALID == I32Max

\* a path entry that names a source but is not flagged DISPLAYCONFIG_PATH_ACTIVE
InactivePath(name) ==
    [flags |-> 0, sourceName |-> name,
     sourceModeIdx |-> PATH_MODE_IDX_INVALID, targetModeIdx |-> PATH_MODE_IDX_INVALID,
     rotation |-> 1, scaling |-> 0]

\* DISPLAYCONFIG_PATH_INFO::default(), the content of an allocated entry the
\* fill call did not write
DefaultPath == InactivePath("")

\* the arrays after the fill call when the platform lists every device's path,
\* flagged active or not, in device order: the path of an attached device is
\* the one QueryDisplayConfig gives it (with its mode indices), the others
\* are not flagged active; `spare` allocated entries stay unwritten, and
\* num_paths is the count the fill call returned.
QueryDisplayConfigListed(devs, spare) ==
    LET q == QueryDisplayConfig(devs)
        rank(k) == Cardinality({j \in 1..k : devs[j].active})
    IN [paths |-> [k \in 1..(Len(devs) + spare) |->
                      IF k > Len(devs) THEN DefaultPath
                      ELSE IF devs[k].active THEN q.paths[rank(k)]
                      ELSE InactivePath(devs[k].name)],
        modes |-> q.modes,
        num_paths |-> Len(devs)]

\* Vec::truncate
truncate(v, len) == IF len < Len(v) THEN SubSeq(v, 1, len) ELSE v

\* DisplayProperties::from_display_config (called at display.rs:359): position
\* and resolution from the source mode, frequency from the target mode's
\* rational vsync (default when the denominator is 0), primary iff the source
\* position is (0,0).
from_display_config(path, ms) ==
    LET src == ms[path.sourceModeIdx + 1]
        tgt == ms[path.targetModeIdx + 1]
    IN [name |-> path.sourceName,
        active |-> path.flags % 2 = 1,
        primary |-> src.position = Position_new(0, 0),
        settings |-> Some(
            [position |-> src.position,
             resolution |-> <<src.width, src.height>>,
             orientation |-> from_rotation(path.rotation),
             frequency |-> IF tgt.vSyncDenominator = 0 THEN DefaultFrequency
                           ELSE tgt.vSyncNumerator \div tgt.vSyncDenominator,
             scaling |-> Scaling_from_value(path.scaling)])]

\* variant: the primary index is the position of the path, not the position
\* of the display in the result
RECURSIVE convert_paths_by_path_index(_, _, _, _, _, _)
convert_paths_by_path_index(ps, ms, k, result, primary_index, fault) ==
    IF k > Len(ps)
    THEN [result |-> "Ok", index |-> 0, displays |-> result, primary_display |-> primary_index]
    ELSE IF ps[k].flags % 2 = 0
    THEN convert_paths_by_path_index(ps, ms, k + 1, result, primary_index, fault)
    ELSE IF fault.stage = "from_display_config" /\ fault.at = k - 1
    THEN [result |-> "Properties", index |-> k - 1, displays |-> result,
          primary_display |-> primary_index]
    ELSE LET properties == from_display_config(ps[k], ms) IN
         convert_paths_by_path_index(ps, ms, k + 1, Append(result, properties),
                       IF properties.primary THEN k - 1 ELSE primary_index, fault)

\* display.rs query_displays, step 3: the loop over the returned paths.
RECURSIVE convert_paths(_, _, _, _, _, _)
convert_paths(ps, ms, k, result, primary_index, fault) ==
    IF k > Len(ps)
    THEN [result |-> "Ok", index |-> 0, displays |-> result, primary_display |-> primary_index]
    ELSE IF ps[k].flags % 2 = 0
    THEN convert_paths(ps, ms, k + 1, result, primary_index, fault)
    ELSE IF fault.stage = "from_display_config" /\ fault.at = k - 1
    THEN [result |-> "Properties", index |-> k - 1, displays |-> result,
          primary_display |-> primary_index]
    ELSE LET properties == from_display_config(ps[k], ms) IN
         convert_paths(ps, ms, k + 1, Append(result, properties),
                       IF properties.primary THEN Len(result) ELSE primary_index, fault)

\* variant: a failing conversion returns the error together with the set of
\* the displays converted so far
graph_query_displays_partial(devs, fault) ==
    IF fault.stage \in {"GetDisplayConfigBufferSizes", "QueryDisplayConfig"}
    THEN [result |-> "WinAPI", code |-> 0, index |-> 0, set |-> None]
    ELSE LET q == QueryDisplayConfig(devs)
             c == convert_paths(q.paths, q.modes, 1, <<>>, 0, fault)
         IN [result |-> c.result, code |-> 0, index |-> c.index,
             set |-> Some([displays |-> c.displays,
                           primary_display |-> c.primary_display,
                           paths |-> q.paths,
                           modes |-> q.modes])]

\* display.rs query_displays: buffer sizes, fill, conversion; every failing
\* step returns the error with `?`, the set is built only at the end.
graph_query_displays_with(devs, fault) ==
    IF fault.stage \in {"GetDisplayConfigBufferSizes", "QueryDisplayConfig"}
    THEN [result |-> "WinAPI", code |-> 0, index |-> 0, set |-> None]
    ELSE LET q == QueryDisplayConfig(devs)
             c == convert_paths(q.paths, q.modes, 1, <<>>, 0, fault)
         IN [result |-> c.result, code |-> 0, index |-> c.index,
             set |-> IF c.result = "Ok"
                     THEN Some([displays |-> c.displays,
                                primary_display |-> c.primary_display,
                                paths |-> q.paths,
                                modes |-> q.modes])
                     ELSE None]

graph_query_displays(devs) == graph_query_displays_with(devs, NoFault).set[1]

\* display.rs query_displays, steps 2 (truncation) and 3 on filled arrays
graph_query_displays_of(filled) ==
    LET ps == truncate(filled.paths, filled.num_paths)
        c == convert_paths(ps, filled.modes, 1, <<>>, 0, NoFault)
    IN [displays |-> c.displays, primary_display |-> c.primary_display,
        paths |-> ps, modes |-> filled.modes]

\* the calls of a graph query that can fail: the buffer-size call, the fill
\* call, the conversion of any returned path
graph_faults(devs) ==
    {Fault("GetDisplayConfigBufferSizes", 0, 0), Fault("QueryDisplayConfig", 0, 0)}
    \cup {Fault("from_display_config", k - 1, 0) : k \in 1..Len(AttachedDevices(devs))}

----------------------------------------------------------------------------
(* Display views *)

Indices == 0..(Len(displays) - 1)

\* Display::is_primary: the view's index equals the set's primary pointer.
is_primary(i) == primary_display = i

\* DisplaySet::get
get(i) == IF i >= Len(displays) THEN None ELSE Some(i)

\* DisplaySet::primary
primary == primary_display

\* indices a Display view can carry: get / displays() give valid ones,
\* primary() gives the pointer whatever it is
ViewIndices == Indices \cup {primary}

----------------------------------------------------------------------------
Remaining == [query |-> MaxQueries, set_primary |-> MaxSetPrimary,
              setter |-> MaxSetters, apply |-> MaxApplies, refresh |-> MaxRefreshes]

Op(op, index, result, code) == [op |-> op, index |-> index, result |-> result, code |-> code]

\* the position of the run in the sequence query_displays, set_primary, apply,
\* refresh (each returning Ok, nothing else in between); "off" once it left it
FlowStep(f, op, result) ==
    IF op = "query_displays" /\ result = "Ok" THEN "queried"
    ELSE IF f = "queried" /\ op = "set_primary" /\ result = "Ok" THEN "staged"
    ELSE IF f = "staged" /\ op = "apply" /\ result = "Ok" THEN "applied"
    ELSE IF f = "applied" /\ op = "refresh" /\ result = "Ok" THEN "refreshed"
    ELSE "off"

Init ==
    /\ backend \in Backends
    /\ overflow_checks \in BOOLEAN
    /\ os_devices \in PlatformConfigs
    /\ os_registry = os_devices
    /\ has_set = FALSE
    /\ displays = <<>>
    /\ primary_display = 0
    /\ paths = <<>>
    /\ modes = <<>>
    /\ calls = <<>>
    /\ last = Op("init", 0, "Ok", 0)
    /\ flow = "off"
    /\ queried = <<>>
    /\ text = NoText
    /\ trail = <<>>
    /\ budget = Remaining

\* the part of a returned set that a caller compares: the displays and the
\* primary index
Returned(set) == [displays |-> set.displays, primary_display |-> set.primary_display]

LastTwo(q) == IF Len(q) > 2 THEN Tail(q) ELSE q

\* one entry of the record of queries: the set the call returned and the set
\* the caller held (and drops) when it made the call
QueryEntry(set, held) == [set |-> Returned(set), dropped |-> held]

Held == IF has_set
        THEN Some(Returned([displays |-> displays, primary_display |-> primary_display]))
        ELSE None

\* query_displays: a platform call failing aborts the query (no set is
\* returned, the caller keeps what it had).
\* variant: a query made while a set is held keeps the staged values of that set
query_displays_keeps_staged ==
    /\ last.result # "panic"
    /\ budget.query > 0
    /\ budget' = [budget EXCEPT !.query = @ - 1]
    /\ UNCHANGED <<backend, overflow_checks, os_devices, os_registry, text>>
    /\ \E fault \in {NoFault} \cup (IF backend = "legacy" THEN legacy_faults(os_devices)
                                     ELSE graph_faults(os_devices)) :
        LET q == IF backend = "legacy" THEN legacy_query_displays_with(os_devices, fault)
                 ELSE graph_query_displays_with(os_devices, fault)
        IN /\ calls' = IF fault = NoFault THEN <<>>
                       ELSE <<[api |-> fault.stage, at |-> fault.at, code |-> fault.code]>>
           /\ last' = Op("query_displays", q.index, q.result, q.code)
           /\ flow' = FlowStep(flow, last'.op, last'.result)
           /\ IF q.set # None
              THEN /\ has_set' = TRUE
                   /\ displays' = IF has_set THEN displays ELSE q.set[1].displays
                   /\ primary_display' = IF has_set THEN primary_display
                                         ELSE q.set[1].primary_display
                   /\ paths' = q.set[1].paths
                   /\ modes' = q.set[1].modes
                   /\ trail' = <<>>
                   /\ queried' = LastTwo(Append(queried, QueryEntry(IF has_set THEN Held[1] ELSE q.set[1], Held)))
              ELSE UNCHANGED <<has_set, displays, primary_display, paths, modes, trail,
                               queried>>

query_displays ==
    /\ last.result # "panic"
    /\ budget.query > 0
    /\ budget' = [budget EXCEPT !.query = @ - 1]
    /\ UNCHANGED <<backend, overflow_checks, os_devices, os_registry, text>>
    /\ \E fault \in {NoFault} \cup (IF backend = "legacy" THEN legacy_faults(os_devices)
                                     ELSE graph_faults(os_devices)) :
        LET q == IF backend = "legacy" THEN legacy_query_displays_with(os_devices, fault)
                 ELSE graph_query_displays_with(os_devices, fault)
        IN /\ calls' = IF fault = NoFault THEN <<>>
                       ELSE <<[api |-> fault.stage, at |-> fault.at, code |-> fault.code]>>
           /\ last' = Op("query_displays", q.index, q.result, q.code)
           /\ flow' = FlowStep(flow, last'.op, last'.result)
           /\ IF q.set # None
              THEN /\ has_set' = TRUE
                   /\ displays' = q.set[1].displays
                   /\ primary_display' = q.set[1].primary_display
                   /\ paths' = q.set[1].paths
                   /\ modes' = q.set[1].modes
                   /\ trail' = <<>>
                   /\ queried' = LastTwo(Append(queried, QueryEntry(q.set[1], Held)))
              ELSE UNCHANGED <<has_set, displays, primary_display, paths, modes, trail,
                               queried>>

----------------------------------------------------------------------------
(* Primary Reassignment: DisplaySet::set_primary *)

\* variant: the origin is added instead of subtracted (the negation is lost)
translate_no_neg(old_position, pos) ==
    Position_add(old_position, pos)

\* variant: the operands are exchanged (-pos + old_position)
translate_swapped(old_position, pos) ==
    LET n == Position_neg(pos)
        a == Position_add(n.value, old_position)
    IN [value |-> a.value, overflow |-> n.overflow \/ a.overflow]

\* the new position of another active display: -old_position + pos
translate(old_position, pos) ==
    LET n == Position_neg(old_position)
        a == Position_add(n.value, pos)
    IN [value |-> a.value, overflow |-> n.overflow \/ a.overflow]

\* the graph variant clears the stored primary flag of every other active
\* display (display.rs:165); the legacy variant leaves the flags alone.
sibling_primary(be, flag) == IF be = "graph" THEN FALSE ELSE flag

\* the graph variant sets the stored flag of the target (display.rs:178).
target_primary(be, flag) == IF be = "graph" THEN TRUE ELSE flag

\* the loop over all displays: checks and mutates display by display, and
\* returns at the first active display without settings.
RECURSIVE set_primary_loop(_, _, _, _, _, _)
set_primary_loop(be, oc, ds, i, index, old_position) ==
    IF i >= Len(ds) THEN [displays |-> ds, result |-> "Ok"]
    ELSE LET display == ds[i + 1] IN
         IF display.active /\ i # index
         THEN IF display.settings = None
              THEN [displays |-> ds, result |-> "NoSettings"]
              ELSE LET t == translate(old_position, display.settings[1].position) IN
                   IF t.overflow /\ oc
                   THEN [displays |-> ds, result |-> "panic"]
                   ELSE set_primary_loop(be, oc,
                            [ds EXCEPT ![i + 1].settings[1].position = t.value,
                                       ![i + 1].primary = sibling_primary(be, @)],
                            i + 1, index, old_position)
         ELSE set_primary_loop(be, oc, ds, i + 1, index, old_position)

\* variant: the target keeps its old position (the new origin is never written)
set_primary_result_keeps_target(be, oc, ds, index) ==
    IF index >= Len(ds) THEN [displays |-> ds, result |-> "panic"]
    ELSE LET new_primary == ds[index + 1] IN
         IF ~new_primary.active THEN [displays |-> ds, result |-> "PrimaryDisplay"]
         ELSE IF new_primary.settings = None
         THEN [displays |-> ds, result |-> "NoSettings"]
         ELSE LET loop == set_primary_loop(be, oc, ds, 0, index,
                                           new_primary.settings[1].position)
              IN IF loop.result # "Ok" THEN loop
                 ELSE [displays |->
                          [loop.displays EXCEPT
                              ![index + 1].primary = target_primary(be, @)],
                       result |-> "Ok"]

\* variant: the check that the target is active is missing
set_primary_result_no_active_check(be, oc, ds, index) ==
    IF index >= Len(ds) THEN [displays |-> ds, result |-> "panic"]
    ELSE LET new_primary == ds[index + 1] IN
         IF new_primary.settings = None
         THEN [displays |-> ds, result |-> "NoSettings"]
         ELSE LET loop == set_primary_loop(be, oc, ds, 0, index,
                                           new_primary.settings[1].position)
              IN IF loop.result # "Ok" THEN loop
                 ELSE [displays |->
                          [loop.displays EXCEPT
                              ![index + 1].settings[1].position = Position_new(0, 0),
                              ![index + 1].primary = target_primary(be, @)],
                       result |-> "Ok"]

set_primary_result(be, oc, ds, index) ==
    IF index >= Len(ds) THEN [displays |-> ds, result |-> "panic"]
    ELSE LET new_primary == ds[index + 1] IN
         IF ~new_primary.active THEN [displays |-> ds, result |-> "PrimaryDisplay"]
         ELSE IF new_primary.settings = None
         THEN [displays |-> ds, result |-> "NoSettings"]
         ELSE LET loop == set_primary_loop(be, oc, ds, 0, index,
                                           new_primary.settings[1].position)
              IN IF loop.result # "Ok" THEN loop
                 ELSE [displays |->
                          [loop.displays EXCEPT
                              ![index + 1].settings[1].position = Position_new(0, 0),
                              ![index + 1].primary = target_primary(be, @)],
                       result |-> "Ok"]

Window(t) == IF Len(t) > TrailLen THEN Tail(t) ELSE t

\* variant: a successful set_primary also writes the moved positions to the
\* platform's stored configuration
set_primary_writes_through(index) ==
    /\ last.result # "panic"
    /\ has_set
    /\ budget.set_primary > 0
    /\ budget' = [budget EXCEPT !.set_primary = @ - 1]
    /\ LET r == set_primary_result(backend, overflow_checks, displays, index) IN
        /\ displays' = r.displays
        /\ primary_display' = IF r.result = "Ok" THEN index ELSE primary_display
        /\ last' = Op("set_primary", index, r.result, 0)
        /\ flow' = FlowStep(flow, last'.op, last'.result)
        /\ trail' = Window(Append(trail,
                        [index |-> index, result |-> r.result,
                         displays |-> displays, primary_display |-> primary_display]))
    /\ calls' = <<>>
    /\ os_registry' =
          LET r == set_primary_result(backend, overflow_checks, displays, index)
              staged(name) == { d \in DOMAIN r.displays :
                                  r.displays[d].name = name /\ r.displays[d].settings # None }
          IN IF r.result # "Ok" THEN os_registry
             ELSE [k \in DOMAIN os_registry |->
                     IF os_registry[k].settings # None /\ staged(os_registry[k].name) # {}
                     THEN [os_registry[k] EXCEPT !.settings[1].position =
                             r.displays[CHOOSE d \in staged(os_registry[k].name) : TRUE]
                                 .settings[1].position]
                     ELSE os_registry[k]]
    /\ UNCHANGED <<backend, overflow_checks, os_devices, has_set, paths, modes,
                   queried, text>>

set_primary(index) ==
    /\ last.result # "panic"
    /\ has_set
    /\ budget.set_primary > 0
    /\ budget' = [budget EXCEPT !.set_primary = @ - 1]
    /\ LET r == set_primary_result(backend, overflow_checks, displays, index) IN
        /\ displays' = r.displays
        /\ primary_display' = IF r.result = "Ok" THEN index ELSE primary_display
        /\ last' = Op("set_primary", index, r.result, 0)
        /\ flow' = FlowStep(flow, last'.op, last'.result)
        /\ trail' = Window(Append(trail,
                        [index |-> index, result |-> r.result,
                         displays |-> displays, primary_display |-> primary_display]))
    /\ calls' = <<>>
    /\ UNCHANGED <<backend, overflow_checks, os_devices, os_registry, has_set, paths, modes,
                   queried, text>>

----------------------------------------------------------------------------
(* Settings Mutation: main.rs set_properties / assign_if_ok on the staged  *)
(* settings handed out by Display::settings                                *)

PropertiesOpts ==
    { [position |-> Some(Position_new(I32Min, 0)), resolution |-> None,
       frequency |-> None, orientation |-> None],
      [position |-> Some(Position_new(I32Max, 1080)), resolution |-> None,
       frequency |-> None, orientation |-> None],
      [position |-> Some(Position_new(-1, 0)), resolution |-> None,
       frequency |-> None, orientation |-> None],
      [position |-> None, resolution |-> Some(<<1280, 720>>),
       frequency |-> Some(75), orientation |-> None],
      [position |-> None, resolution |-> None,
       frequency |-> None, orientation |-> Some("Portrait")] }

assign_if_ok(value, old) == IF value # None THEN value[1] ELSE old

\* variant: a position that was not supplied is reset to the origin
set_properties_resets_position(properties, settings) ==
    [settings EXCEPT
        !.position = IF properties.position # None THEN properties.position[1]
                     ELSE Position_new(0, 0),
        !.resolution = assign_if_ok(properties.resolution, @),
        !.frequency = assign_if_ok(properties.frequency, @),
        !.orientation = assign_if_ok(properties.orientation, @)]

set_properties(properties, settings) ==
    [settings EXCEPT
        !.position = assign_if_ok(properties.position, @),
        !.resolution = assign_if_ok(properties.resolution, @),
        !.frequency = assign_if_ok(properties.frequency, @),
        !.orientation = assign_if_ok(properties.orientation, @)]

setter(i, properties) ==
    /\ last.result # "panic"
    /\ has_set
    /\ budget.setter > 0
    /\ budget' = [budget EXCEPT !.setter = @ - 1]
    /\ get(i) # None
    /\ IF displays[i + 1].settings # None
       THEN /\ displays' = [displays EXCEPT
                               ![i + 1].settings[1] = set_properties(properties, @)]
            /\ last' = Op("setter", i, "Ok", 0)
            /\ flow' = FlowStep(flow, last'.op, last'.result)
       ELSE /\ displays' = displays
            /\ last' = Op("setter", i, "NoSettings", 0)
            /\ flow' = FlowStep(flow, last'.op, last'.result)
    /\ trail' = <<>>
    /\ calls' = <<>>
    /\ UNCHANGED <<backend, overflow_checks, os_devices, os_registry, has_set,
                   primary_display, paths, modes, queried, text>>

----------------------------------------------------------------------------
(* Apply/Commit, legacy backend *)

FailCodes == {-1, -2}

\* properties.rs:153-157: CDS_UPDATEREGISTRY | CDS_NORESET | CDS_GLOBAL, plus
\* CDS_SET_PRIMARY when the stored primary flag is set
\* variant: every commit call asks to become the primary
cds_flags_always_primary(flag) ==
    {"CDS_UPDATEREGISTRY", "CDS_NORESET", "CDS_GLOBAL", "CDS_SET_PRIMARY"}

cds_flags(flag) ==
    {"CDS_UPDATEREGISTRY", "CDS_NORESET", "CDS_GLOBAL"} \cup
    (IF flag THEN {"CDS_SET_PRIMARY"} ELSE {})

\* properties.rs FromDisplaySettings::from_display_settings
from_display_settings(settings) ==
    [dmPosition |-> settings.position,
     dmDisplayOrientation |-> Orientation_to_windows(settings.orientation),
     dmDisplayFixedOutput |-> FixedOutput_to_windows(settings.fixed_output),
     dmPelsWidth |-> settings.resolution[1],
     dmPelsHeight |-> settings.resolution[2],
     dmDisplayFrequency |-> settings.frequency]

\* the ChangeDisplaySettingsExW call of DisplayProperties::apply
commit_call(display, code) ==
    [api |-> "ChangeDisplaySettingsExW",
     device |-> display.name,
     devmode |-> from_display_settings(display.settings[1]),
     flags |-> cds_flags(display.primary),
     code |-> code]

\* the order in which DisplaySet::apply visits the displays: index order
apply_order(ds) == [i \in 1..Len(ds) |-> i]

\* platforms/windows/display.rs DisplaySet::apply with DisplayProperties::apply
\* inlined: the failAt-th commit call returns `code`, the others succeed.
RECURSIVE legacy_apply_loop(_, _, _, _, _, _)
legacy_apply_loop(ds, order, k, issued, failAt, code) ==
    IF k > Len(order) THEN [calls |-> issued, result |-> "Ok", code |-> 0]
    ELSE LET display == ds[order[k]] IN
         IF ~display.active
         THEN legacy_apply_loop(ds, order, k + 1, issued, failAt, code)
         ELSE IF display.settings = None
         THEN [calls |-> issued, result |-> "NoSettings", code |-> 0]
         ELSE LET ret == IF Len(issued) + 1 = failAt THEN code ELSE 0
                  call == commit_call(display, ret)
              IN IF ret = 0
                 THEN legacy_apply_loop(ds, order, k + 1, Append(issued, call), failAt, code)
                 ELSE [calls |-> Append(issued, call), result |-> "ApplyFailed",
                       code |-> ret]

\* variant: a failing commit is reported but the remaining displays are
\* committed all the same
legacy_apply_continues(ds, failAt, code) ==
    LET all == legacy_apply_loop(ds, apply_order(ds), 1, <<>>, 0, code) IN
    IF all.result # "Ok" \/ failAt < 1 \/ failAt > Len(all.calls) THEN all
    ELSE [calls |-> [k \in 1..Len(all.calls) |->
                        IF k = failAt THEN [all.calls[k] EXCEPT !.code = code]
                        ELSE all.calls[k]],
          result |-> "ApplyFailed", code |-> code]

legacy_apply(ds, failAt, code) ==
    legacy_apply_loop(ds, apply_order(ds), 1, <<>>, failAt, code)

\* the platform's reaction to one successful per-device commit with
\* CDS_UPDATEREGISTRY | CDS_NORESET: the device's stored settings are replaced;
\* CDS_SET_PRIMARY makes it the stored primary device.
ChangeDisplaySettingsEx(reg, call) ==
    [k \in 1..Len(reg) |->
        IF reg[k].name = call.device
        THEN [reg[k] EXCEPT
                 !.settings = Some(
                     [position |-> call.devmode.dmPosition,
                      resolution |-> <<call.devmode.dmPelsWidth, call.devmode.dmPelsHeight>>,
                      orientation |-> OrientationOfDevmode(call.devmode.dmDisplayOrientation),
                      frequency |-> call.devmode.dmDisplayFrequency,
                      scaling |-> ScalingOfDevmode(call.devmode.dmDisplayFixedOutput)]),
                 !.primary = IF "CDS_SET_PRIMARY" \in call.flags THEN TRUE ELSE @]
        ELSE [reg[k] EXCEPT
                 !.primary = IF "CDS_SET_PRIMARY" \in call.flags THEN FALSE ELSE @]]

RECURSIVE commit_all(_, _, _)
commit_all(reg, cs, k) ==
    IF k > Len(cs) THEN reg
    ELSE commit_all(IF cs[k].code = 0 THEN ChangeDisplaySettingsEx(reg, cs[k]) ELSE reg,
                    cs, k + 1)

----------------------------------------------------------------------------
(* Apply/Commit, topology-graph backend *)

\* display.rs find_path_for_display: first path whose source device name matches
\* variant: the first path is taken whatever source it names
find_path_first(ps, display_name) ==
    IF Len(ps) = 0 THEN None ELSE Some(0)

find_path_for_display(ps, display_name) ==
    LET hits == {k \in 1..Len(ps) : ps[k].sourceName = display_name} IN
    IF hits = {} THEN None
    ELSE Some((CHOOSE k \in hits : \A j \in hits : k <= j) - 1)

update_source_mode(ms, idx, settings) ==
    IF idx >= Len(ms) THEN ms
    ELSE [ms EXCEPT ![idx + 1].position = settings.position,
                    ![idx + 1].width = settings.resolution[1],
                    ![idx + 1].height = settings.resolution[2]]

update_target_mode(ms, idx, settings) ==
    IF idx >= Len(ms) THEN ms
    ELSE [ms EXCEPT ![idx + 1].vSyncNumerator = settings.frequency,
                    ![idx + 1].vSyncDenominator = 1]

update_path_info(path, settings) ==
    [path EXCEPT !.rotation = to_rotation(settings.orientation),
                 !.scaling = Scaling_to_value(settings.scaling)]

\* display.rs:194-209, the fold of the active displays into the arrays
RECURSIVE graph_apply_loop(_, _, _, _)
graph_apply_loop(ds, i, ps, ms) ==
    IF i > Len(ds) THEN [paths |-> ps, modes |-> ms]
    ELSE LET display == ds[i]
             path_idx == find_path_for_display(ps, display.name)
         IN IF ~display.active \/ path_idx = None \/ display.settings = None
            THEN graph_apply_loop(ds, i + 1, ps, ms)
            ELSE LET path == ps[path_idx[1] + 1]
                     settings == display.settings[1]
                 IN graph_apply_loop(ds, i + 1,
                        [ps EXCEPT ![path_idx[1] + 1] = update_path_info(path, settings)],
                        update_target_mode(
                            update_source_mode(ms, path.sourceModeIdx, settings),
                            path.targetModeIdx, settings))

\* display.rs:278-281
sdc_commit_flags ==
    {"SDC_APPLY", "SDC_USE_SUPPLIED_DISPLAY_CONFIG", "SDC_ALLOW_CHANGES",
     "SDC_SAVE_TO_DATABASE"}

\* display.rs commit_display_config: the one SetDisplayConfig call
commit_display_config(ps, ms, code) ==
    <<[api |-> "SetDisplayConfig", paths |-> ps, modes |-> ms,
       flags |-> sdc_commit_flags, code |-> code]>>

\* variant: the commit is issued over the arrays as they were before the fold
graph_apply_stale(ds, ps, ms, code) ==
    LET folded == graph_apply_loop(ds, 1, ps, ms) IN
    [paths |-> folded.paths, modes |-> folded.modes,
     calls |-> commit_display_config(ps, ms, code),
     result |-> IF code = 0 THEN "Ok" ELSE "FailedToCommit",
     code |-> code]

\* variant: the error reports a fixed code instead of the platform's
graph_apply_lost_code(ds, ps, ms, code) ==
    LET folded == graph_apply_loop(ds, 1, ps, ms) IN
    [paths |-> folded.paths, modes |-> folded.modes,
     calls |-> commit_display_config(folded.paths, folded.modes, code),
     result |-> IF code = 0 THEN "Ok" ELSE "FailedToCommit",
     code |-> IF code = 0 THEN 0 ELSE 1]

graph_apply(ds, ps, ms, code) ==
    LET folded == graph_apply_loop(ds, 1, ps, ms) IN
    [paths |-> folded.paths, modes |-> folded.modes,
     calls |-> commit_display_config(folded.paths, folded.modes, code),
     result |-> IF code = 0 THEN "Ok" ELSE "FailedToCommit",
     code |-> code]

\* the platform's reaction to a successful SetDisplayConfig with SDC_APPLY:
\* every device named by an active path takes the supplied source/target mode
\* and path values; the device whose source is at (0,0) is the primary.
SetDisplayConfig(devs, call) ==
    [k \in 1..Len(devs) |->
        LET idx == find_path_for_display(call.paths, devs[k].name) IN
        IF idx = None THEN devs[k]
        ELSE IF call.paths[idx[1] + 1].flags % 2 = 0 THEN devs[k]
        ELSE [devs[k] EXCEPT
                 !.settings = from_display_config(call.paths[idx[1] + 1], call.modes).settings,
                 !.primary = from_display_config(call.paths[idx[1] + 1], call.modes).primary]]

----------------------------------------------------------------------------
(* DisplaySet::apply *)

NumActive(ds) == Cardinality({i \in 1..Len(ds) : ds[i].active})

apply_legacy ==
    /\ backend = "legacy"
    /\ \E failAt \in 0..NumActive(displays), code \in FailCodes :
        LET r == legacy_apply(displays, failAt, code) IN
        /\ calls' = r.calls
        /\ last' = Op("apply", 0, r.result, r.code)
        /\ flow' = FlowStep(flow, last'.op, last'.result)
        /\ os_registry' = commit_all(os_registry, r.calls, 1)
    /\ UNCHANGED <<os_devices, displays, paths, modes>>

apply_graph ==
    /\ backend = "graph"
    /\ \E code \in {0} \cup FailCodes :
        LET r == graph_apply(displays, paths, modes, code) IN
        /\ paths' = r.paths
        /\ modes' = r.modes
        /\ calls' = r.calls
        /\ last' = Op("apply", 0, r.result, r.code)
        /\ flow' = FlowStep(flow, last'.op, last'.result)
        /\ os_devices' = IF code = 0 THEN SetDisplayConfig(os_devices, r.calls[1])
                         ELSE os_devices
        /\ os_registry' = IF code = 0 THEN SetDisplayConfig(os_registry, r.calls[1])
                          ELSE os_registry
    /\ UNCHANGED displays

apply ==
    /\ last.result # "panic"
    /\ has_set
    /\ budget.apply > 0
    /\ budget' = [budget EXCEPT !.apply = @ - 1]
    /\ (apply_legacy \/ apply_graph)
    /\ UNCHANGED <<backend, overflow_checks, has_set, primary_display, trail, queried, text>>

----------------------------------------------------------------------------
(* refresh *)

\* platforms/windows/display.rs refresh:
\* ChangeDisplaySettingsEx(None, None, CDS::DYNAMICALLY); the platform
\* activates its stored configuration.
refresh_legacy ==
    /\ backend = "legacy"
    /\ \E code \in {0} \cup FailCodes :
        /\ calls' = <<[api |-> "ChangeDisplaySettingsEx", device |-> None,
                       devmode |-> None, flags |-> {"CDS_DYNAMICALLY"}, code |-> code]>>
        /\ last' = Op("refresh", 0, IF code = 0 THEN "Ok" ELSE "FailedToCommit", code)
        /\ flow' = FlowStep(flow, last'.op, last'.result)
        /\ os_devices' = IF code = 0 THEN os_registry ELSE os_devices

\* variant: refresh persists like apply does
sdc_refresh_flags_persist ==
    {"SDC_APPLY", "SDC_USE_SUPPLIED_DISPLAY_CONFIG", "SDC_ALLOW_CHANGES",
     "SDC_SAVE_TO_DATABASE"}

\* display.rs:414
sdc_refresh_flags ==
    {"SDC_APPLY", "SDC_USE_SUPPLIED_DISPLAY_CONFIG", "SDC_ALLOW_CHANGES"}

\* display.rs refresh: re-queries the platform and commits what it returned,
\* without SDC_SAVE_TO_DATABASE.
refresh_graph ==
    /\ backend = "graph"
    /\ \E outcome \in {"Ok", "WinAPI", "FailedToCommit"}, code \in FailCodes :
        LET q == QueryDisplayConfig(os_devices)
            ret == IF outcome = "FailedToCommit" THEN code ELSE 0
        IN /\ calls' = IF outcome = "WinAPI" THEN <<>>
                       ELSE <<[api |-> "SetDisplayConfig", paths |-> q.paths,
                               modes |-> q.modes,
                               flags |-> sdc_refresh_flags,
                               code |-> ret]>>
           /\ last' = Op("refresh", 0, outcome, ret)
           /\ flow' = FlowStep(flow, last'.op, last'.result)
           /\ os_devices' = IF outcome = "Ok" THEN SetDisplayConfig(os_devices, calls'[1])
                            ELSE os_devices

refresh ==
    /\ last.result # "panic"
    /\ budget.refresh > 0
    /\ budget' = [budget EXCEPT !.refresh = @ - 1]
    /\ (refresh_legacy \/ refresh_graph)
    /\ UNCHANGED <<backend, overflow_checks, os_registry, has_set, displays,
                   primary_display, paths, modes, trail, queried, text>>

----------------------------------------------------------------------------
Next ==
    \/ query_displays
    \/ \E index \in ViewIndices : set_primary(index)
    \/ \E i \in Indices, properties \in PropertiesOpts : setter(i, properties)
    \/ apply
    \/ refresh

Spec == Init /\ [][Next]_vars

----------------------------------------------------------------------------
(* Staging alone: the set returned by a successful query_displays on a     *)
(* platform of up to StagingDisplays devices, then set_primary and setter  *)
(* calls on it (no apply, no refresh).                                     *)

InitStaging ==
    /\ backend \in Backends
    /\ overflow_checks \in BOOLEAN
    /\ os_devices \in PlatformConfigsUpTo(StagingDisplays)
    /\ os_registry = os_devices
    /\ has_set = TRUE
    /\ LET set == IF backend = "legacy" THEN legacy_query_displays(os_devices)
                  ELSE graph_query_displays(os_devices)
       IN /\ displays = set.displays
          /\ primary_display = set.primary_display
          /\ paths = set.paths
          /\ modes = set.modes
          /\ queried = <<QueryEntry(set, None)>>
    /\ text = NoText
    /\ calls = <<>>
    /\ last = Op("query_displays", 0, "Ok", 0)
    /\ flow = "queried"
    /\ trail = <<>>
    /\ budget = [Remaining EXCEPT !.query = 0, !.apply = 0, !.refresh = 0]

NextStaging ==
    \/ \E index \in ViewIndices : set_primary(index)
    \/ \E i \in Indices, properties \in PropertiesOpts : setter(i, properties)

SpecStaging == InitStaging /\ [][NextStaging]_vars

----------------------------------------------------------------------------
(* Staging followed by a second query: the first query has returned its    *)
(* set, set_primary and setter calls stage changes on it, and the caller   *)
(* queries again (no apply, no refresh, the platform is left alone).       *)

InitRequery ==
    /\ backend \in Backends
    /\ overflow_checks \in BOOLEAN
    /\ os_devices \in PlatformConfigs
    /\ os_registry = os_devices
    /\ has_set = TRUE
    /\ LET set == IF backend = "legacy" THEN legacy_query_displays(os_devices)
                  ELSE graph_query_displays(os_devices)
       IN /\ displays = set.displays
          /\ primary_display = set.primary_display
          /\ paths = set.paths
          /\ modes = set.modes
          /\ queried = <<QueryEntry(set, None)>>
    /\ text = NoText
    /\ calls = <<>>
    /\ last = Op("query_displays", 0, "Ok", 0)
    /\ flow = "queried"
    /\ trail = <<>>
    /\ budget = [Remaining EXCEPT !.apply = 0, !.refresh = 0]

NextRequery ==
    \/ query_displays
    \/ \E index \in ViewIndices : set_primary(index)
    \/ \E i \in Indices, properties \in PropertiesOpts : setter(i, properties)

SpecRequery == InitRequery /\ [][NextRequery]_vars

----------------------------------------------------------------------------
(* Setters before one apply: the set returned by a successful query, up to *)
(* SettersBeforeApply setter calls on it, then apply().                    *)

InitSetters ==
    /\ backend \in Backends
    /\ overflow_checks \in BOOLEAN
    /\ os_devices \in PlatformConfigs
    /\ os_registry = os_devices
    /\ has_set = TRUE
    /\ LET set == IF backend = "legacy" THEN legacy_query_displays(os_devices)
                  ELSE graph_query_displays(os_devices)
       IN /\ displays = set.displays
          /\ primary_display = set.primary_display
          /\ paths = set.paths
          /\ modes = set.modes
          /\ queried = <<QueryEntry(set, None)>>
    /\ text = NoText
    /\ calls = <<>>
    /\ last = Op("query_displays", 0, "Ok", 0)
    /\ flow = "queried"
    /\ trail = <<>>
    /\ budget = [Remaining EXCEPT !.query = 0, !.set_primary = 0, !.refresh = 0,
                                  !.setter = SettersBeforeApply]

NextSetters ==
    \/ \E i \in Indices, properties \in PropertiesOpts : setter(i, properties)
    \/ apply

SpecSetters == InitSetters /\ [][NextSetters]_vars

----------------------------------------------------------------------------
(* Staging and apply on the set a query returned on up to StagingDisplays   *)
(* devices.  The topology-graph arrays also list paths not flagged active   *)
(* (the case the filter at display.rs:354 exists for) and unwritten spare   *)
(* entries (the case the truncation at display.rs:345 exists for).          *)

SpareEntries == 1

InitApply ==
    /\ backend \in Backends
    /\ overflow_checks \in BOOLEAN
    /\ os_devices \in PlatformConfigsUpTo(StagingDisplays)
    /\ os_registry = os_devices
    /\ has_set = TRUE
    /\ \E spare \in 0..(IF backend = "graph" THEN SpareEntries ELSE 0) :
        LET set == IF backend = "legacy" THEN legacy_query_displays(os_devices)
                   ELSE graph_query_displays_of(QueryDisplayConfigListed(os_devices, spare))
        IN /\ displays = set.displays
           /\ primary_display = set.primary_display
           /\ paths = set.paths
           /\ modes = set.modes
           /\ queried = <<QueryEntry(set, None)>>
    /\ text = NoText
    /\ calls = <<>>
    /\ last = Op("query_displays", 0, "Ok", 0)
    /\ flow = "queried"
    /\ trail = <<>>
    /\ budget = [Remaining EXCEPT !.query = 0, !.refresh = 0, !.set_primary = 1]

NextApply ==
    \/ \E index \in ViewIndices : set_primary(index)
    \/ \E i \in Indices, properties \in PropertiesOpts : setter(i, properties)
    \/ apply

SpecApply == InitApply /\ [][NextApply]_vars

----------------------------------------------------------------------------
(* The mutating CLI flows of main.rs (SetPrimary, Primary, Properties): one *)
(* run of main from the query to the exit; every `?` ends the run.          *)

AfterQuery == last.op = "query_displays" /\ last.result = "Ok"

\* main.rs:121, let display_set = query_displays()?
cli_query ==
    /\ last.op = "init"
    /\ query_displays

\* main.rs:232-234 and 259-261: display_set.get(id).ok_or_else(...)? on an id
\* the set does not have
cli_not_found(id) ==
    /\ AfterQuery
    /\ get(id) = None
    /\ last' = Op("get", id, "NotFound", 0)
    /\ flow' = "off"
    /\ calls' = <<>>
    /\ UNCHANGED <<backend, overflow_checks, os_devices, os_registry, has_set, displays,
                   primary_display, paths, modes, text, queried, trail, budget>>

\* main.rs:231-236, SubCommands::SetPrimary { id }
cli_set_primary(id) ==
    /\ AfterQuery
    /\ get(id) # None
    /\ set_primary(id)

\* main.rs:241-249, SubCommands::Primary { properties } on a set that has
\* the display primary() designates
cli_primary(properties) ==
    /\ AfterQuery
    /\ setter(primary, properties)

\* main.rs:242-244 on an empty set: display.settings() indexes the displays
\* with the primary index (display.rs Display::properties)
cli_primary_out_of_bounds ==
    /\ AfterQuery
    /\ get(primary) = None
    /\ last' = Op("setter", primary, "panic", 0)
    /\ flow' = "off"
    /\ calls' = <<>>
    /\ UNCHANGED <<backend, overflow_checks, os_devices, os_registry, has_set, displays,
                   primary_display, paths, modes, text, queried, trail, budget>>

\* main.rs:258-268, SubCommands::Properties { id, properties }
cli_properties(id, properties) ==
    /\ AfterQuery
    /\ get(id) # None
    /\ setter(id, properties)

\* variant: apply is reached whatever the staging call returned
cli_apply_unchecked ==
    /\ last.op \in {"set_primary", "setter"}
    /\ apply

\* main.rs:238, 251, 270: display_set.apply()? after the staging call
\* returned Ok
cli_apply ==
    /\ last.op \in {"set_primary", "setter"}
    /\ last.result = "Ok"
    /\ apply

\* main.rs:239, 252, 271: refresh()? after apply returned Ok
cli_refresh ==
    /\ last.op = "apply"
    /\ last.result = "Ok"
    /\ refresh

NextCli ==
    \/ cli_query
    \/ \E id \in 0..MaxDisplays : cli_not_found(id)
    \/ \E id \in 0..MaxDisplays : cli_set_primary(id)
    \/ \E properties \in PropertiesOpts : cli_primary(properties)
    \/ cli_primary_out_of_bounds
    \/ \E id \in 0..MaxDisplays, properties \in PropertiesOpts : cli_properties(id, properties)
    \/ cli_apply
    \/ cli_refresh

SpecCli == Init /\ [][NextCli]_vars

----------------------------------------------------------------------------
(* Text round trip: a value of one of the four kinds, of either module, is *)
(* formatted with to_string() and the text is parsed with from_str().      *)

I32Samples == {I32Min, -1920, -10, -1, 0, 7, 1920, I32Max}

U32Samples == {U32(0, 0), U32(0, 9), U32(0, 60), U32(0, 1080), U32(0, 1920), U32(0, 65535),
               U32(1, 0), U32(32767, 65535), U32(32768, 0), U32(65535, 65535)}

Chosen(module, kind, value) ==
    [stage |-> "value", module |-> module, kind |-> kind, value |-> value,
     text |-> <<>>, parsed |-> None]

InitText ==
    /\ backend = "graph"
    /\ overflow_checks = FALSE
    /\ os_devices = <<>>
    /\ os_registry = <<>>
    /\ has_set = FALSE
    /\ displays = <<>>
    /\ primary_display = 0
    /\ paths = <<>>
    /\ modes = <<>>
    /\ calls = <<>>
    /\ last = Op("init", 0, "Ok", 0)
    /\ flow = "off"
    /\ queried = <<>>
    /\ trail = <<>>
    /\ budget = [query |-> 0, set_primary |-> 0, setter |-> 0, apply |-> 0, refresh |-> 0]
    /\ \E module \in TextModules :
        \/ \E x \in I32Samples, y \in I32Samples :
              text = Chosen(module, "Position", Position_new(x, y))
        \/ \E width \in U32Samples, height \in U32Samples :
              text = Chosen(module, "Resolution", Resolution_new(width, height))
        \/ \E f \in U32Samples : text = Chosen(module, "Frequency", f)
        \/ \E o \in Orientations : text = Chosen(module, "Orientation", o)

to_string ==
    /\ text.stage = "value"
    /\ text' = [text EXCEPT !.stage = "formatted",
                            !.text = format(text.module, text.kind, text.value)]
    /\ UNCHANGED <<backend, overflow_checks, os_devices, os_registry, has_set, displays,
                   primary_display, paths, modes, calls, last, flow, queried, trail, budget>>

from_str ==
    /\ text.stage = "formatted"
    /\ text' = [text EXCEPT !.stage = "parsed",
                            !.parsed = Some(parse(text.module, text.kind, text.text))]
    /\ UNCHANGED <<backend, overflow_checks, os_devices, os_registry, has_set, displays,
                   primary_display, paths, modes, calls, last, flow, queried, trail, budget>>

NextText ==
    \/ to_string
    \/ from_str

SpecText == InitText /\ [][NextText]_vars

----------------------------------------------------------------------------
(* set_primary on any DisplaySet value of the type: every display is       *)
(* active or not, an active display carries settings or none (the case the *)
(* NoSettings branches of set_primary exist for), the pointer is any index. *)

ContractRow(act, some) ==
    [i \in 1..ContractDisplays |->
        [name |-> DeviceName(i),
         active |-> i \in act,
         primary |-> FALSE,
         settings |-> IF i \in some
                      THEN Some([DefaultSettings EXCEPT
                                    !.position = Position_new(1920 * (i - 1), 0)])
                      ELSE None]]

InitContract ==
    /\ backend \in Backends
    /\ overflow_checks \in BOOLEAN
    /\ os_devices = <<>>
    /\ os_registry = <<>>
    /\ has_set = TRUE
    /\ \E act \in SUBSET (1..ContractDisplays) : \E some \in SUBSET act :
         \E p \in 0..(ContractDisplays - 1) :
            /\ displays = [ContractRow(act, some) EXCEPT ![p + 1].primary = TRUE]
            /\ primary_display = p
    /\ paths = <<>>
    /\ modes = <<>>
    /\ calls = <<>>
    /\ last = Op("init", 0, "Ok", 0)
    /\ flow = "off"
    /\ queried = <<>>
    /\ text = NoText
    /\ trail = <<>>
    /\ budget = Remaining

NextContract == \E index \in Indices : set_primary(index)

SpecContract == InitContract /\ [][NextContract]_vars

----------------------------------------------------------------------------
(* apply on any DisplaySet value of the type (the case the missing-settings *)
(* branches of apply exist for: properties.rs:148-150, display.rs:203).     *)
(* The platform holds every device of the set; the topology-graph arrays    *)
(* hold one path per active display.                                        *)

ContractSettings(be, i) ==
    IF be = "legacy"
    THEN [position |-> Position_new(1920 * (i - 1), 0), resolution |-> <<1920, 1080>>,
          orientation |-> "Landscape", frequency |-> DefaultFrequency,
          fixed_output |-> "Default"]
    ELSE [DefaultSettings EXCEPT !.position = Position_new(1920 * (i - 1), 0)]

ContractDevices(act) ==
    [i \in 1..ContractDisplays |->
        [name |-> DeviceName(i),
         active |-> i \in act,
         primary |-> FALSE,
         settings |-> IF i \in act THEN Some(ContractSettings("graph", i)) ELSE None]]

InitContractApply ==
    /\ backend \in Backends
    /\ overflow_checks \in BOOLEAN
    /\ has_set = TRUE
    /\ \E act \in SUBSET (1..ContractDisplays) : \E some \in SUBSET act :
         \E p \in 0..(ContractDisplays - 1) :
            /\ displays = [i \in 1..ContractDisplays |->
                              [name |-> DeviceName(i),
                               active |-> i \in act,
                               primary |-> i = p + 1,
                               settings |-> IF i \in some
                                            THEN Some(ContractSettings(backend, i))
                                            ELSE None]]
            /\ primary_display = p
            /\ os_devices = ContractDevices(act)
            /\ os_registry = ContractDevices(act)
            /\ paths = IF backend = "graph" THEN QueryDisplayConfig(ContractDevices(act)).paths
                       ELSE <<>>
            /\ modes = IF backend = "graph" THEN QueryDisplayConfig(ContractDevices(act)).modes
                       ELSE <<>>
    /\ calls = <<>>
    /\ last = Op("init", 0, "Ok", 0)
    /\ flow = "off"
    /\ queried = <<>>
    /\ text = NoText
    /\ trail = <<>>
    /\ budget = Remaining

NextContractApply == apply

SpecContractApply == InitContractApply /\ [][NextContractApply]_vars

----------------------------------------------------------------------------
(* Properties of Primary Reassignment *)

\* the last operation was a set_primary call on an existing display; its
\* pre-state is the newest entry of the trail
AfterSetPrimary ==
    /\ last.op = "set_primary"
    /\ trail # <<>>
    /\ last.index < Len(displays)

Before == trail[Len(trail)]

PositionOf(ds, i) == IF ds[i + 1].settings = None THEN None
                     ELSE Some(ds[i + 1].settings[1].position)

Positions(ds) == [k \in 1..Len(ds) |-> PositionOf(ds, k - 1)]

Flags(ds) == [k \in 1..Len(ds) |-> ds[k].primary]

\* C1: when set_primary(d) returns Ok (d is then an active display), d's staged
\* position is exactly (0,0), d.is_primary() is true, and exactly one display of
\* the set reports is_primary() = true; in both backends.
C1_TargetIsTheOnePrimaryAtOrigin ==
    (AfterSetPrimary /\ last.result = "Ok") =>
        /\ displays[last.index + 1].active
        /\ PositionOf(displays, last.index) = Some(Position_new(0, 0))
        /\ is_primary(last.index)
        /\ Cardinality({i \in Indices : is_primary(i)}) = 1

\* a successful set_primary on a display that was neither at the origin nor
\* the primary, in a set of three active displays
C1_Witness ==
    /\ AfterSetPrimary /\ last.result = "Ok"
    /\ Before.primary_display # last.index
    /\ PositionOf(Before.displays, last.index) = Some(Position_new(3840, 0))
    /\ \A i \in Indices : displays[i + 1].active
    /\ Len(displays) = 3

\* C2: when set_primary(target) returns Ok, the new position of every other
\* active display is its position before the call minus the target's position
\* before the call, component-wise in i32 (the exact difference whenever that
\* is an i32); positions of inactive displays are untouched.
C2_OthersTranslatedByOrigin ==
    (AfterSetPrimary /\ last.result = "Ok") =>
        LET origin == Before.displays[last.index + 1].settings[1].position IN
        \A i \in Indices \ {last.index} :
            IF Before.displays[i + 1].active
            THEN LET old == Before.displays[i + 1].settings[1].position
                     d == Position_sub(old, origin)
                 IN /\ PositionOf(displays, i) = Some(d.value)
                    /\ ~d.overflow =>
                         PositionOf(displays, i) =
                             Some(<<old[1] - origin[1], old[2] - origin[2]>>)
            ELSE displays[i + 1].settings = Before.displays[i + 1].settings

\* A at (0,0), B at (1920,0), set_primary(B): A at (-1920,0), B at (0,0)
C2_Witness ==
    /\ AfterSetPrimary /\ last.result = "Ok" /\ last.index = 1
    /\ PositionOf(Before.displays, 0) = Some(Position_new(0, 0))
    /\ PositionOf(Before.displays, 1) = Some(Position_new(1920, 0))
    /\ PositionOf(displays, 0) = Some(Position_new(-1920, 0))
    /\ PositionOf(displays, 1) = Some(Position_new(0, 0))

C4_InactiveTargetRejected ==
    (AfterSetPrimary /\ ~Before.displays[last.index + 1].active) =>
        /\ last.result = "PrimaryDisplay"
        /\ displays = Before.displays
        /\ primary_display = Before.primary_display

\* an inactive target in a set that also has an active display elsewhere
C4_Witness ==
    /\ AfterSetPrimary
    /\ ~Before.displays[last.index + 1].active
    /\ last.result = "PrimaryDisplay"
    /\ \E i \in Indices : displays[i + 1].active /\ displays[i + 1].settings # None

\* three consecutive successful calls set_primary(A); set_primary(B);
\* set_primary(A)
ABA ==
    /\ last.op = "set_primary"
    /\ Len(trail) = 3
    /\ \A k \in 1..3 : trail[k].result = "Ok"
    /\ trail[1].index = trail[3].index

\* C5 as stated: after set_primary(A); set_primary(B); set_primary(A) every
\* display's position equals its position before the sequence started.
C5_RestoresOriginal ==
    ABA => Positions(displays) = Positions(trail[1].displays)

\* C5 amended: after set_primary(A); set_primary(B); set_primary(A), all Ok,
\* every display's position equals its position after the first set_primary(A);
\* that is its position before the sequence exactly when A was at (0,0) before
\* the sequence.
C5_RestoresFirstResult ==
    ABA =>
        /\ Positions(displays) = Positions(trail[2].displays)
        /\ (Positions(displays) = Positions(trail[1].displays)) <=>
               (PositionOf(trail[1].displays, trail[1].index) = Some(Position_new(0, 0)))

\* A, B and a third display all active, A and B different, B not at the
\* origin after the first call
C5_Witness ==
    /\ ABA
    /\ trail[1].index # trail[2].index
    /\ PositionOf(trail[1].displays, trail[1].index) # Some(Position_new(0, 0))
    /\ Len(displays) = 3
    /\ \A i \in Indices : displays[i + 1].active

----------------------------------------------------------------------------
(* Properties of the pipeline: query, stage, apply, refresh *)

\* the devices the platform reports as primary in its active configuration
PlatformPrimaries == {os_devices[k].name : k \in {j \in 1..Len(os_devices) : os_devices[j].primary}}

\* C6: on a platform with at least two active displays, after query_displays,
\* set_primary(d) for an active display d that is not the primary, apply() and
\* refresh() all succeeded (in this order, nothing in between), the platform
\* reports d and only d as its primary display; in both backends.
C6_PlatformPrimaryIsTarget ==
    (/\ flow = "refreshed"
     /\ NumActive(Before.displays) >= 2
     /\ ~Before.displays[Before.index + 1].primary) =>
        PlatformPrimaries = {displays[Before.index + 1].name}

\* C7: legacy backend, within one DisplaySet::apply() the commit call of the
\* primary display (the one carrying CDS_SET_PRIMARY) is issued before the
\* commit call of every non-primary active display.
C7_PrimaryCommittedFirst ==
    (backend = "legacy" /\ last.op = "apply") =>
        \A j, k \in 1..Len(calls) :
            (/\ "CDS_SET_PRIMARY" \in calls[k].flags
             /\ "CDS_SET_PRIMARY" \notin calls[j].flags) => k < j

ActiveIndices == {i \in Indices : displays[i + 1].active}

\* C8: in the set returned by query_displays and after any set_primary and
\* setter calls, exactly one active display has its primary flag set when at
\* least one display is active, and when no display is active no display is
\* primary: no stored flag is set and the set designates no display
\* (is_primary() is false for every display).
C8_OnePrimaryAmongActive ==
    (has_set /\ last.result # "panic") =>
        IF ActiveIndices # {}
        THEN Cardinality({i \in ActiveIndices : displays[i + 1].primary}) = 1
        ELSE \A i \in Indices : ~displays[i + 1].primary /\ ~is_primary(i)

\* C9: in every state after query_displays and any set_primary, setter, apply
\* and refresh calls, a display carries Settings if and only if it is active.
C9_SettingsIffActive ==
    has_set =>
        \A i \in Indices : (displays[i + 1].settings # None) <=> displays[i + 1].active

\* a set with an active and an inactive display, after staging, apply and
\* refresh
C9_Witness ==
    /\ has_set
    /\ last.op = "refresh"
    /\ budget.set_primary < MaxSetPrimary
    /\ budget.apply < MaxApplies
    /\ \E i \in Indices : ~displays[i + 1].active /\ displays[i + 1].settings = None
    /\ \E i \in Indices : displays[i + 1].active /\ displays[i + 1].settings # None

\* C10: topology-graph backend, each DisplaySet::apply() issues exactly one
\* commit call, whatever the number of displays; it is issued over the complete
\* path/mode arrays after the staged settings of every active display have been
\* written into them, with the flags apply, use supplied configuration, allow
\* changes and save to database.
C10_OneCommitOverFoldedArrays ==
    (backend = "graph" /\ last.op = "apply") =>
        /\ Len(calls) = 1
        /\ calls[1].api = "SetDisplayConfig"
        /\ calls[1].flags = {"SDC_APPLY", "SDC_USE_SUPPLIED_DISPLAY_CONFIG",
                             "SDC_ALLOW_CHANGES", "SDC_SAVE_TO_DATABASE"}
        /\ calls[1].paths = paths
        /\ calls[1].modes = modes
        /\ \A i \in ActiveIndices :
             LET idx == find_path_for_display(calls[1].paths, displays[i + 1].name) IN
             /\ idx # None
             /\ LET path == calls[1].paths[idx[1] + 1]
                    src == calls[1].modes[path.sourceModeIdx + 1]
                    tgt == calls[1].modes[path.targetModeIdx + 1]
                    staged == displays[i + 1].settings[1]
                IN /\ src.position = staged.position
                   /\ <<src.width, src.height>> = staged.resolution
                   /\ tgt.vSyncNumerator = staged.frequency
                   /\ tgt.vSyncDenominator = 1
                   /\ path.rotation = to_rotation(staged.orientation)
                   /\ path.scaling = Scaling_to_value(staged.scaling)

\* an apply on two displays after set_primary moved the first one to (-1920,0)
C10_Witness ==
    /\ backend = "graph" /\ last.op = "apply"
    /\ Len(displays) = 2
    /\ Len(calls) = 1
    /\ PositionOf(displays, 0) = Some(Position_new(-1920, 0))
    /\ calls[1].modes[1].position = Position_new(-1920, 0)

----------------------------------------------------------------------------
(* Properties of commit errors, refresh and enumeration *)

\* C11: in both backends, when a commit call made by apply() returns a
\* non-success code c, apply() returns a commit error carrying exactly c, and
\* that call is the last commit call of the apply() invocation (no retry, no
\* further call).
C11_CommitErrorCarriesCode ==
    last.op = "apply" =>
        \A k \in 1..Len(calls) :
            calls[k].code # 0 =>
                /\ last.result \in {"ApplyFailed", "FailedToCommit"}
                /\ last.code = calls[k].code
                /\ k = Len(calls)

\* a legacy apply on two active displays whose first commit call failed
C11_Witness ==
    /\ last.op = "apply" /\ backend = "legacy"
    /\ NumActive(displays) = 2
    /\ Len(calls) = 1
    /\ calls[1].code = -2
    /\ last.result = "ApplyFailed" /\ last.code = -2


\* flags that make a commit call persist the configuration
PersistenceFlags == {"CDS_UPDATEREGISTRY", "SDC_SAVE_TO_DATABASE"}

\* the one call of a refresh: a dynamic reset without a persistence flag,
\* whose failure is returned as a commit error carrying the platform's code
RefreshCall ==
    /\ Len(calls) = 1
    /\ calls[1].flags \cap PersistenceFlags = {}
    /\ calls[1].flags \cap {"CDS_DYNAMICALLY", "SDC_APPLY"} # {}
    /\ IF calls[1].code = 0 THEN last.result = "Ok"
       ELSE last.result = "FailedToCommit" /\ last.code = calls[1].code

\* a step of refresh leaves the DisplaySet as it was
RefreshKeepsSet ==
    [][last'.op = "refresh" /\ budget'.refresh # budget.refresh =>
          UNCHANGED <<has_set, displays, primary_display, paths, modes>>]_vars

\* C12 as stated: refresh() issues exactly one platform reset/commit call, a
\* dynamic reset without the persistence flag, changes no DisplaySet, and
\* returns a commit error carrying the platform's code when the call fails.
C12_RefreshIssuesOneCall ==
    [](last.op = "refresh" => RefreshCall) /\ RefreshKeepsSet

\* C12 amended: refresh() issues exactly one platform reset/commit call, a
\* dynamic reset without the persistence flag, returning a commit error with
\* the platform's code when it fails, unless (topology-graph backend) its own
\* query of the platform fails: then it issues no reset/commit call and
\* returns the query error. In every case it changes no DisplaySet.
C12_RefreshIssuesOneCallUnlessQueryFails ==
    /\ [](last.op = "refresh" =>
            IF last.result = "WinAPI"
            THEN backend = "graph" /\ calls = <<>>
            ELSE RefreshCall)
    /\ RefreshKeepsSet

\* a failing refresh of the graph backend while a reassignment is staged
C12_Witness ==
    /\ last.op = "refresh" /\ backend = "graph"
    /\ last.result = "FailedToCommit" /\ last.code = -1
    /\ Len(calls) = 1
    /\ Len(displays) = 2
    /\ PositionOf(displays, 0) = Some(Position_new(-1920, 0))


\* the last operation was a legacy query whose enumerate call failed at device
\* index calls[1].at with the invalid-handle code
InvalidHandleAtIndex ==
    /\ last.op = "query_displays" /\ backend = "legacy"
    /\ calls # <<>>
    /\ calls[1].api = "EnumDisplayDevices"
    /\ calls[1].code = ERROR_INVALID_HANDLE

\* C13: legacy enumeration, when the enumerate call at device index k fails
\* with the designated invalid-handle code, query_displays returns Ok with the
\* displays of indices 0..k-1; the code is not returned as a query error.
C13_InvalidHandleEndsTheList ==
    InvalidHandleAtIndex =>
        /\ last.result = "Ok"
        /\ has_set
        /\ displays = [i \in 1..calls[1].at |-> from_windows(os_devices[i])]


\* C14: topology-graph enumeration, if the buffer-size call, the fill call or
\* the conversion of an active path fails, query_displays returns an error and
\* no DisplaySet: the caller has no set it did not have before, in particular
\* not one of the displays converted so far.
C14_FailedQueryReturnsNoSet ==
    [][(/\ backend = "graph"
        /\ budget'.query # budget.query
        /\ calls' # <<>>) =>
           /\ last'.op = "query_displays"
           /\ last'.result \in {"WinAPI", "Properties"}
           /\ UNCHANGED <<has_set, displays, primary_display, paths, modes>>]_vars

\* the conversion of the second of two active paths failed
C14_Witness ==
    /\ last.op = "query_displays" /\ backend = "graph"
    /\ calls # <<>>
    /\ calls[1].api = "from_display_config" /\ calls[1].at = 1
    /\ last.result = "Properties"
    /\ ~has_set /\ displays = <<>>


C16_PositionRoundTrip ==
    (text.stage = "parsed" /\ text.kind = "Position") =>
        text.parsed = Some(Ok(text.value))

\* C17: resolution, orientation and frequency text round trip, in the
\* current types module and in the legacy properties module: parsing the
\* text produced by formatting a value succeeds and yields that value.
C17_OtherKindsRoundTrip ==
    (text.stage = "parsed" /\ text.kind \in {"Resolution", "Orientation", "Frequency"}) =>
        text.parsed = Some(Ok(text.value))

\* a resolution at the top of the u32 range, a frequency and the legacy
\* orientation LandscapeFlipped ("UpsideDown") have each made the round trip
C17_Witness ==
    /\ text.stage = "parsed"
    /\ \/ /\ text.kind = "Orientation"
          /\ text.module = "properties"
          /\ text.value = "LandscapeFlipped"
          /\ text.text = properties_Orientation_fmt("LandscapeFlipped")
       \/ /\ text.kind = "Resolution"
          /\ text.value = Resolution_new(U32(65535, 65535), U32(0, 1080))
          /\ Len(text.text) = 15
       \/ /\ text.kind = "Frequency"
          /\ text.value = U32(0, 60)
          /\ text.text = <<"6", "0">>


\* the set is as query_displays returned it or as set_primary calls left it
OnlySetPrimarySinceQuery ==
    /\ has_set
    /\ budget.setter = MaxSetters
    /\ last.op \in {"query_displays", "set_primary"}
    /\ last.result # "panic"

\* C18: for every non-empty display set, in the state returned by
\* query_displays and after any sequence of set_primary calls, primary()
\* returns a view whose index is a valid index of the set, that designates
\* an active display and for which is_primary() is true; get(i) returns a
\* view with index i exactly when i is smaller than the number of displays
\* and None otherwise.
C18_PrimaryViewIsValidAndActive ==
    (OnlySetPrimarySinceQuery /\ Len(displays) > 0) =>
        /\ primary \in Indices
        /\ displays[primary + 1].active
        /\ is_primary(primary)
        /\ \A i \in 0..(Len(displays) + 1) :
              IF i < Len(displays) THEN get(i) = Some(i) ELSE get(i) = None


\* C19: set_primary only stages: whether it succeeds or fails it issues no
\* platform call, leaves the platform's configuration unchanged and
\* (topology-graph backend) leaves the set's raw path and mode arrays
\* unchanged; the platform's configuration changes only in an apply() (or
\* refresh()) that runs afterwards.
C19_SetPrimaryOnlyStages ==
    [][/\ (budget'.set_primary < budget.set_primary) =>
            /\ last'.op = "set_primary"
            /\ calls' = <<>>
            /\ os_devices' = os_devices
            /\ os_registry' = os_registry
            /\ paths' = paths
            /\ modes' = modes
       /\ (os_devices' # os_devices \/ os_registry' # os_registry) =>
            last'.op \in {"apply", "refresh"}]_vars

\* a set_primary that moved staged positions has returned on the
\* topology-graph backend, the platform still being as it was queried
C19_Witness ==
    /\ backend = "graph"
    /\ last.op = "set_primary"
    /\ last.result = "Ok"
    /\ trail # <<>>
    /\ Before.displays # displays
    /\ Len(paths) > 0
    /\ calls = <<>>
    /\ os_registry = os_devices


\* the settings `new` are the settings `old` with exactly the supplied
\* fields of `properties` replaced
OnlySuppliedFieldsChanged(properties, old, new) ==
    /\ DOMAIN new = DOMAIN old
    /\ \A f \in DOMAIN old :
          new[f] = IF f \in DOMAIN properties /\ properties[f] # None
                   THEN properties[f][1] ELSE old[f]

\* C20: a field setter applied to display d's staged Settings changes only
\* the fields for which a value was supplied, on d only: the other fields of
\* d, the Settings and primary flags of every other display, the primary
\* index and the platform configuration are unchanged, and a setter leaves
\* apply() as available as it was, however many setters ran before.
C20_SetterChangesOnlySuppliedFields ==
    [][(budget'.setter < budget.setter) =>
        /\ last'.op = "setter"
        /\ DOMAIN displays' = DOMAIN displays
        /\ \A k \in DOMAIN displays :
              /\ displays'[k].name = displays[k].name
              /\ displays'[k].active = displays[k].active
              /\ displays'[k].primary = displays[k].primary
              /\ (k # last'.index + 1 \/ displays[k].settings = None) =>
                    displays'[k].settings = displays[k].settings
              /\ (k = last'.index + 1 /\ displays[k].settings # None) =>
                    /\ displays'[k].settings # None
                    /\ \E properties \in PropertiesOpts :
                          OnlySuppliedFieldsChanged(properties, displays[k].settings[1],
                                                    displays'[k].settings[1])
        /\ primary_display' = primary_display
        /\ os_devices' = os_devices
        /\ os_registry' = os_registry
        /\ paths' = paths
        /\ modes' = modes
        /\ calls' = <<>>
        /\ has_set' /\ last'.result # "panic" /\ budget'.apply = budget.apply]_vars

\* two setters staged a position and an orientation on one display that is
\* not at the origin, and the one apply() after them returned Ok
C20_Witness ==
    /\ budget.setter = 0
    /\ last.op = "apply"
    /\ last.result = "Ok"
    /\ \E k \in DOMAIN displays :
          /\ displays[k].settings # None
          /\ queried[1].set.displays[k].settings[1].position # Position_new(0, 0)
          /\ displays[k].settings[1].position = Position_new(-1, 0)
          /\ displays[k].settings[1].orientation = "Portrait"
          /\ displays[k].settings[1].frequency = queried[1].set.displays[k].settings[1].frequency


\* C21: in both backend variants, when set_primary(target) succeeds the
\* stored primary flag of the target is true and the stored primary flag of
\* every other active display is false, whatever the flags were before.
C21_StoredFlagsFollowTarget ==
    (AfterSetPrimary /\ last.result = "Ok") =>
        /\ displays[last.index + 1].primary
        /\ \A i \in ActiveIndices : i # last.index => ~displays[i + 1].primary


\* the commit calls of the last operation that name the device of display i
CallsFor(i) == {k \in 1..Len(calls) : calls[k].device = displays[i + 1].name}

PathsNamed(ps, name) == {k \in 1..Len(ps) : ps[k].sourceName = name}

FirstOf(S) == CHOOSE k \in S : \A j \in S : k <= j

ActiveNames == {displays[i + 1].name : i \in ActiveIndices}

\* the 1-based mode entries the paths of active displays refer to
ModesOfActive(ps) ==
    UNION {{ps[k].sourceModeIdx + 1, ps[k].targetModeIdx + 1} :
              k \in {j \in 1..Len(ps) : ps[j].sourceName \in ActiveNames}}

\* C23: topology-graph apply(): at the moment of the commit call, for every
\* active display the path found by device-name match and its source/target
\* mode entries hold exactly that display's staged values (source-mode
\* position and width/height = staged position and resolution, target-mode
\* vsync = staged frequency / 1, path rotation and scaling = staged
\* orientation and scaling), and path and mode entries that belong to no
\* active display are unchanged from the queried arrays.
C23_CommitHoldsStagedValues ==
    [][(backend = "graph" /\ budget'.apply < budget.apply) =>
        /\ Len(calls') = 1
        /\ Len(calls'[1].paths) = Len(paths)
        /\ Len(calls'[1].modes) = Len(modes)
        /\ \A i \in ActiveIndices :
              /\ PathsNamed(calls'[1].paths, displays[i + 1].name) # {}
              /\ displays[i + 1].settings # None
              /\ LET path == calls'[1].paths[FirstOf(PathsNamed(calls'[1].paths,
                                                               displays[i + 1].name))]
                     source == calls'[1].modes[path.sourceModeIdx + 1]
                     target == calls'[1].modes[path.targetModeIdx + 1]
                     settings == displays[i + 1].settings[1]
                 IN /\ source.position = settings.position
                    /\ <<source.width, source.height>> = settings.resolution
                    /\ target.vSyncNumerator = settings.frequency
                    /\ target.vSyncDenominator = 1
                    /\ path.rotation = to_rotation(settings.orientation)
                    /\ path.scaling = Scaling_to_value(settings.scaling)
        /\ \A k \in 1..Len(paths) :
              paths[k].sourceName \notin ActiveNames => calls'[1].paths[k] = paths[k]
        /\ \A m \in 1..Len(modes) :
              m \notin ModesOfActive(paths) => calls'[1].modes[m] = modes[m]]_vars

\* an apply() has committed staged values that differ from the queried ones
\* over arrays in which a path not flagged active precedes the paths of two
\* active displays
C23_Witness ==
    /\ backend = "graph"
    /\ last.op = "apply"
    /\ Len(calls) = 1
    /\ NumActive(displays) = 2
    /\ Len(paths) >= 3
    /\ paths[1].flags = 0
    /\ displays # queried[1].set.displays


\* the active displays in the order apply() visits them (1-based positions)
ActiveSeq == SelectSeq([k \in 1..Len(displays) |-> k], LAMBDA k : displays[k].active)

\* the platform's stored record of the device of display k (1-based)
Stored(reg, k) == reg[CHOOSE j \in 1..Len(reg) : reg[j].name = displays[k].name]

\* C24: legacy apply() partial failure: when the commit call for some active
\* display fails, apply() returns that error at once; every active display
\* earlier in the commit order has already been committed, no display later
\* in the order receives a commit call, and the staged Settings and primary
\* flags of the set are unchanged by the failed apply().
C24_PartialFailureStopsTheBatch ==
    [][(backend = "legacy" /\ budget'.apply < budget.apply /\ last'.result = "ApplyFailed") =>
        /\ Len(calls') >= 1
        /\ Len(calls') <= Len(ActiveSeq)
        /\ calls'[Len(calls')].code # 0
        /\ last'.code = calls'[Len(calls')].code
        /\ \A k \in 1..Len(calls') : calls'[k].device = displays[ActiveSeq[k]].name
        /\ \A k \in 1..(Len(calls') - 1) :
              /\ calls'[k].code = 0
              /\ Stored(os_registry', ActiveSeq[k]).settings # None
              /\ LET stored == Stored(os_registry', ActiveSeq[k]).settings[1]
                     staged == displays[ActiveSeq[k]].settings[1]
                 IN /\ stored.position = staged.position
                    /\ stored.resolution = staged.resolution
                    /\ stored.frequency = staged.frequency
                    /\ stored.orientation = staged.orientation
        /\ \A k \in Len(calls')..Len(ActiveSeq) :
              Stored(os_registry', ActiveSeq[k]).settings
                  = Stored(os_registry, ActiveSeq[k]).settings
        /\ displays' = displays
        /\ primary_display' = primary_display]_vars

\* a legacy apply() over three active displays with staged changes failed at
\* the second commit call: one display committed, one refused, one not tried
C24_Witness ==
    /\ backend = "legacy"
    /\ last.op = "apply"
    /\ last.result = "ApplyFailed"
    /\ NumActive(displays) = 3
    /\ Len(calls) = 2
    /\ calls[1].code = 0
    /\ os_registry # os_devices
    /\ displays # queried[1].set.displays


\* the staged settings of active display i (0-based) are part of a commit
\* call of the last operation
Committed(i) ==
    /\ displays[i + 1].settings # None
    /\ IF backend = "legacy"
       THEN \E k \in CallsFor(i) :
               calls[k].devmode = from_display_settings(displays[i + 1].settings[1])
       ELSE /\ Len(calls) = 1
            /\ PathsNamed(calls[1].paths, displays[i + 1].name) # {}
            /\ LET path == calls[1].paths[FirstOf(PathsNamed(calls[1].paths,
                                                             displays[i + 1].name))]
                   settings == displays[i + 1].settings[1]
               IN /\ calls[1].modes[path.sourceModeIdx + 1].position = settings.position
                  /\ calls[1].modes[path.targetModeIdx + 1].vSyncNumerator
                        = settings.frequency
                  /\ path.rotation = to_rotation(settings.orientation)

C26_ApplyDefersActivation ==
    [][/\ (budget'.apply < budget.apply) =>
            /\ \A k \in 1..Len(calls') :
                  IF calls'[k].api = "SetDisplayConfig"
                  THEN "SDC_APPLY" \notin calls'[k].flags
                  ELSE "CDS_NORESET" \in calls'[k].flags
            /\ os_devices' = os_devices
       /\ (os_devices' # os_devices) => last'.op = "refresh"]_vars


\* the returned paths flagged DISPLAYCONFIG_PATH_ACTIVE, in path order
ActivePaths == SelectSeq(paths, LAMBDA p : p.flags % 2 = 1)

\* the displays (1-based) whose path has its source mode at (0,0)
AtOrigin ==
    {k \in 1..Len(ActivePaths) :
        modes[ActivePaths[k].sourceModeIdx + 1].position = Position_new(0, 0)}

\* C27: topology-graph query_displays: the returned set contains one display
\* per returned path flagged active, in path order (paths beyond the count
\* actually returned are never included), and its primary index designates a
\* display whose source-mode position is exactly (0,0) whenever such a
\* display exists; no display at another position is designated primary in
\* that case.
C27_OneDisplayPerActivePath ==
    (backend = "graph" /\ has_set /\ last.op = "query_displays" /\ last.result = "Ok") =>
        /\ Len(paths) <= Len(os_devices)
        /\ Len(displays) = Len(ActivePaths)
        /\ \A k \in 1..Len(ActivePaths) : displays[k].name = ActivePaths[k].sourceName
        /\ AtOrigin # {} => primary_display + 1 \in AtOrigin

\* a query returned a set over arrays in which a path not flagged active
\* precedes the path of the display at the origin, which follows another
\* active display
C27_Witness ==
    /\ backend = "graph"
    /\ has_set
    /\ last.op = "query_displays"
    /\ last.result = "Ok"
    /\ Len(paths) = 3
    /\ paths[1].flags = 0
    /\ Len(displays) = 2
    /\ primary_display = 1
    /\ AtOrigin = {2}


\* the run of main has ended before apply: the id was not found, the
\* selected display has no Settings, or the staging call returned an error
StagingFailed ==
    \/ last.op = "get"
    \/ last.op \in {"set_primary", "setter"} /\ last.result # "Ok"

\* C28: in every mutating CLI flow (set-primary, primary, properties) the
\* platform operations occur in the order query, staging, apply, refresh;
\* refresh is issued only after apply returned success, and neither apply
\* nor refresh is issued when the display id is not found, the selected
\* display has no Settings, or set_primary returned an error.
C28_CliOrder ==
    [][/\ (budget'.query < budget.query) => last.op = "init"
       /\ (budget'.set_primary < budget.set_primary \/ budget'.setter < budget.setter) =>
            /\ last.op = "query_displays"
            /\ last.result = "Ok"
       /\ (budget'.apply < budget.apply) =>
            /\ last.op \in {"set_primary", "setter"}
            /\ last.result = "Ok"
            /\ budget.query < MaxQueries
       /\ (budget'.refresh < budget.refresh) =>
            /\ last.op = "apply"
            /\ last.result = "Ok"
       /\ StagingFailed =>
            /\ budget.apply = MaxApplies /\ budget.refresh = MaxRefreshes
            /\ budget'.apply = budget.apply /\ budget'.refresh = budget.refresh
            /\ calls' = calls /\ os_devices' = os_devices /\ os_registry' = os_registry]_vars

\* a run of the set-primary flow went through query, set_primary, apply and
\* refresh, each returning Ok, and the platform was called by the refresh
C28_Witness ==
    /\ flow = "refreshed"
    /\ last.op = "refresh"
    /\ last.result = "Ok"
    /\ budget.query = 0 /\ budget.apply = 0 /\ budget.refresh = 0
    /\ budget.set_primary = MaxSetPrimary - 1
    /\ budget.setter = MaxSetters
    /\ Len(calls) = 1


\* C29: primary pointer and primary flags agree: in the state returned by
\* query_displays and after any sequence of set_primary calls, for every
\* display i of the set, is_primary() (index equals the set's primary index)
\* is true if and only if display i's stored primary flag, the one that
\* selects the set-primary commit flag, is set; in both variants.
C29_PointerAndFlagsAgree ==
    OnlySetPrimarySinceQuery =>
        \A i \in Indices : is_primary(i) <=> displays[i + 1].primary

\* C30: for every coordinate of every other active display, whenever the
\* exact difference old - origin fits in a signed 32-bit integer, the
\* computation set_primary performs (-origin + old) has no intermediate
\* overflow, the call does not abort, and when it returns Ok the stored
\* coordinate is exactly that difference.
C30_ExactDifferenceWithoutOverflow ==
    (/\ AfterSetPrimary
     /\ Before.index < Len(Before.displays)
     /\ Before.displays[Before.index + 1].active
     /\ Before.displays[Before.index + 1].settings # None) =>
        LET origin == Before.displays[Before.index + 1].settings[1].position
            others == {k \in 1..Len(Before.displays) :
                          /\ k # Before.index + 1
                          /\ Before.displays[k].active
                          /\ Before.displays[k].settings # None}
            old(k) == Before.displays[k].settings[1].position
            fits(k) == \A c \in 1..2 : ~SubI32(old(k)[c], origin[c]).overflow
        IN /\ \A k \in others : \A c \in 1..2 :
                ~SubI32(old(k)[c], origin[c]).overflow =>
                    /\ ~NegI32(origin[c]).overflow
                    /\ ~AddI32(NegI32(origin[c]).value, old(k)[c]).overflow
                    /\ last.result = "Ok" =>
                           displays[k].settings[1].position[c]
                               = SubI32(old(k)[c], origin[c]).value
           /\ (\A k \in others : fits(k)) => last.result # "panic"

====
